---------------------------- MODULE Spec2Model ----------------------------
(***************************************************************************)
(* Cypher front end of the sqlparser fork: the Cypher AST and its Display  *)
(* rendering (src/ast/cypher.rs), the recursive-descent pattern parser     *)
(* (src/parser/cypher.rs) and the Cypher-to-SQL translation                *)
(* (src/transformer/mod.rs, src/transformer/cypher_to_sql.rs).             *)
(*                                                                         *)
(* Text is a sequence of pieces: an identifier is one atomic piece, every  *)
(* punctuation character and every digit is a piece of its own, and each   *)
(* literal fragment of a format string is one piece.  Option<T> is a       *)
(* sequence of length 0 (None) or 1 (Some).                                *)
(***************************************************************************)
EXTENDS Integers, Sequences, FiniteSets, TLC

VARIABLES pc, value, text, tokens, parsed, text2, reparsed, text3, sql, statements, config,
          stdout, stderr, exit_status

vars ==
    <<pc, value, text, tokens, parsed, text2, reparsed, text3, sql, statements, config,
      stdout, stderr, exit_status>>

(***************************************************************************)
(* Bounds of the model.                                                    *)
(***************************************************************************)
MaxLengthBound == 11

MaxPatternNodes == 2

MaxPatterns == 2

None == <<>>

Some(x) == <<x>>

IsSome(o) == Len(o) > 0

(***************************************************************************)
(* Generic sequence helpers.                                               *)
(***************************************************************************)
RECURSIVE Flatten(_)
Flatten(ss) == IF ss = <<>> THEN <<>> ELSE Head(ss) \o Flatten(Tail(ss))

RECURSIVE Join(_, _)
Join(ss, sep) ==
    IF ss = <<>> THEN <<>>
    ELSE IF Len(ss) = 1 THEN Head(ss)
    ELSE Head(ss) \o sep \o Join(Tail(ss), sep)

(***************************************************************************)
(* Decimal text of an unsigned integer (`{n}` of a u64) and str::parse of  *)
(* a u64.                                                                  *)
(***************************************************************************)
DigitChars == <<"0", "1", "2", "3", "4", "5", "6", "7", "8", "9">>

IsDigit(c) == \E d \in 1..10 : DigitChars[d] = c

DigitVal(c) == (CHOOSE d \in 1..10 : DigitChars[d] = c) - 1

RECURSIVE Digits(_)
Digits(n) ==
    IF n < 10 THEN <<DigitChars[n + 1]>>
    ELSE Digits(n \div 10) \o <<DigitChars[(n % 10) + 1]>>

U64MaxDigits ==
    <<"1", "8", "4", "4", "6", "7", "4", "4", "0", "7",
      "3", "7", "0", "9", "5", "5", "1", "6", "1", "5">>

RECURSIVE StripZeros(_)
StripZeros(s) ==
    IF Len(s) > 1 /\ Head(s) = "0" THEN StripZeros(Tail(s)) ELSE s

RECURSIVE DigitsLeq(_, _)
DigitsLeq(a, b) ==
    IF a = <<>> THEN TRUE
    ELSE IF DigitVal(Head(a)) < DigitVal(Head(b)) THEN TRUE
    ELSE IF DigitVal(Head(a)) > DigitVal(Head(b)) THEN FALSE
    ELSE DigitsLeq(Tail(a), Tail(b))

FitsU64(s) ==
    LET z == StripZeros(s) IN
    \/ Len(z) < Len(U64MaxDigits)
    \/ Len(z) = Len(U64MaxDigits) /\ DigitsLeq(z, U64MaxDigits)

RECURSIVE DigitsValue(_, _)
DigitsValue(s, acc) ==
    IF s = <<>> THEN acc ELSE DigitsValue(Tail(s), acc * 10 + DigitVal(Head(s)))

ParseU64(s) ==
    IF s # <<>> /\ (\A i \in 1..Len(s) : IsDigit(s[i])) /\ FitsU64(s)
    THEN [ok |-> TRUE, val |-> DigitsValue(s, 0)]
    ELSE [ok |-> FALSE, val |-> 0]

(***************************************************************************)
(* Tokens.  A token is [t |-> kind, v |-> pieces]: a Word carries its one  *)
(* identifier piece, a Number its digit characters.                        *)
(***************************************************************************)
Tok(t) == [t |-> t, v |-> <<>>]

Word(w) == [t |-> "Word", v |-> <<w>>]

Number(ds) == [t |-> "Number", v |-> ds]

EOF == Tok("EOF")

SymbolKind(c) ==
    CASE c = "(" -> "LParen"
      [] c = ")" -> "RParen"
      [] c = "[" -> "LBracket"
      [] c = "]" -> "RBracket"
      [] c = "{" -> "LBrace"
      [] c = "}" -> "RBrace"
      [] c = ":" -> "Colon"
      [] c = "|" -> "Pipe"
      [] c = "*" -> "Mul"
      [] c = "-" -> "Minus"
      [] c = "<" -> "Lt"
      [] c = ">" -> "Gt"
      [] c = "." -> "Period"
      [] c = "," -> "Comma"
      [] c = "=" -> "Eq"
      [] OTHER -> "Word"

IsSymbol(c) == SymbolKind(c) # "Word"

IsSpace(c) == c = " "

(* A piece starts a token unless it is whitespace, the `>` of `->`, or a    *)
(* digit that continues a number.                                          *)
IsTokenStart(s, i) ==
    /\ ~IsSpace(s[i])
    /\ ~(s[i] = ">" /\ i > 1 /\ s[i - 1] = "-")
    /\ ~(IsDigit(s[i]) /\ i > 1 /\ IsDigit(s[i - 1]))

DigitRun(s, i) ==
    LET ends == {j \in i..Len(s) : \A k \in i..j : IsDigit(s[k])} IN
    SubSeq(s, i, CHOOSE j \in ends : \A k \in ends : k <= j)

TokenAt(s, i) ==
    IF s[i] = "-" /\ i < Len(s) /\ s[i + 1] = ">" THEN Tok("Arrow")
    ELSE IF IsDigit(s[i]) THEN Number(DigitRun(s, i))
    ELSE IF IsSymbol(s[i]) THEN Tok(SymbolKind(s[i]))
    ELSE Word(s[i])

(* Tokenizer: whitespace is dropped, `->` is one Arrow token, a run of     *)
(* digits is one Number token, an identifier piece is one Word token.      *)
Tokenize(s) ==
    LET starts == SelectSeq([i \in 1..Len(s) |-> i], LAMBDA i : IsTokenStart(s, i)) IN
    [k \in 1..Len(starts) |-> TokenAt(s, starts[k])]

(***************************************************************************)
(* Parser primitives.  The parser state is the token vector and the index  *)
(* of the next token; a parse function returns                             *)
(* [ok, pos, val, err]: the position after what it consumed and the value, *)
(* or the position of the offending token and the message.                 *)
(***************************************************************************)
Ok(pos, val) == [ok |-> TRUE, pos |-> pos, val |-> val, err |-> ""]

Err(pos, msg) == [ok |-> FALSE, pos |-> pos, val |-> <<>>, err |-> msg]

peek_nth_token(toks, pos, n) ==
    IF pos + n <= Len(toks) THEN toks[pos + n] ELSE EOF

peek_token(toks, pos) == peek_nth_token(toks, pos, 0)

(* consume_token: TRUE iff the next token is of kind t (the caller then     *)
(* advances by one).                                                       *)
consume_token(toks, pos, t) == peek_token(toks, pos).t = t

(* next_token never advances past the end of the token vector's EOF.       *)
Advance(toks, pos) == IF pos <= Len(toks) THEN pos + 1 ELSE pos

expect_token(toks, pos, t, what) ==
    IF consume_token(toks, pos, t) THEN Ok(pos + 1, <<>>) ELSE Err(pos, what)

parse_identifier(toks, pos) ==
    IF peek_token(toks, pos).t = "Word"
    THEN Ok(pos + 1, peek_token(toks, pos).v[1])
    ELSE Err(pos, "identifier")

(* `self.expect_token(..)?; Ok(val)`: the error of the expectation, or val  *)
(* at the position after the expected token.                               *)
Expecting(c, val) == IF ~c.ok THEN c ELSE Ok(c.pos, val)

(* `Some(self.parse_..()?)`                                                *)
OptionalOf(r) == IF ~r.ok THEN r ELSE Ok(r.pos, Some(r.val))

(***************************************************************************)
(* RelationshipLength (src/ast/cypher.rs) and its parser.                  *)
(***************************************************************************)
Exact(n) == [kind |-> "Exact", min |-> Some(n), max |-> None]

Range(min, max) == [kind |-> "Range", min |-> min, max |-> max]

Variable == [kind |-> "Variable", min |-> None, max |-> None]

DisplayU64Opt(o) == IF IsSome(o) THEN Digits(o[1]) ELSE <<>>

DisplayRelationshipLength(l) ==
    CASE l.kind = "Exact" -> <<"*">> \o Digits(l.min[1])
      [] l.kind = "Range" ->
            <<"*">> \o DisplayU64Opt(l.min) \o <<".", ".">> \o DisplayU64Opt(l.max)
      [] l.kind = "Variable" -> <<"*">>

InvalidNumber == "Invalid number in relationship length"

(* m.parse::<u64>() of the number after `..`.                              *)
UpperBoundOf(pos, min, m) ==
    IF ~m.ok THEN Err(pos, InvalidNumber) ELSE Ok(pos + 1, Range(min, Some(m.val)))

(* The part after `..`: an optional upper bound.                           *)
ParseUpperBound(toks, pos, min) ==
    IF peek_token(toks, pos).t = "Number"
    THEN UpperBoundOf(pos, min, ParseU64(peek_token(toks, pos).v))
    ELSE IF IsSome(min) THEN Ok(pos, Range(min, None))
    ELSE Ok(pos, Variable)

(* After the first `.`: the second `.` is expected, then the upper bound.  *)
RangeAfterPeriod(toks, e, min) ==
    IF ~e.ok THEN e ELSE ParseUpperBound(toks, e.pos, min)

(* An unparsable leading number taken as the bound it wraps to.            *)
LengthFromNumberWrapped(toks, pos, n) ==
    IF consume_token(toks, pos + 1, "Period")
    THEN RangeAfterPeriod(toks, expect_token(toks, pos + 2, "Period", "."), Some(n.val))
    ELSE Ok(pos + 1, Exact(n.val))

(* After a leading number n at pos: `..` and a range, or Exact(n).         *)
LengthFromNumber(toks, pos, n) ==
    IF ~n.ok THEN Err(pos, InvalidNumber)
    ELSE IF consume_token(toks, pos + 1, "Period")
         THEN RangeAfterPeriod(toks, expect_token(toks, pos + 2, "Period", "."),
                               Some(n.val))
    ELSE Ok(pos + 1, Exact(n.val))

parse_cypher_relationship_length(toks, pos) ==
    IF peek_token(toks, pos).t = "Number"
    THEN LengthFromNumber(toks, pos, ParseU64(peek_token(toks, pos).v))
    ELSE IF consume_token(toks, pos, "Period")
         THEN RangeAfterPeriod(toks, expect_token(toks, pos + 1, "Period", "."), None)
    ELSE Ok(pos, Variable)

(***************************************************************************)
(* Expressions.  An expression is [kind, parts, args]:                     *)
(*   Identifier          parts = <<a>>                                     *)
(*   CompoundIdentifier  parts = <<a, b, ...>>                             *)
(*   Number              parts = the digits                                *)
(*   SingleQuotedString  parts = <<s>>;   Boolean  parts = <<"true">>      *)
(*   BinaryOp            parts = <<op>>, args = <<left, right>>            *)
(*   Function (MAP)      parts = <<"MAP">> \o keys, args = the values      *)
(***************************************************************************)
Identifier(a) == [kind |-> "Identifier", parts |-> <<a>>, args |-> <<>>]

CompoundIdentifier(ps) == [kind |-> "CompoundIdentifier", parts |-> ps, args |-> <<>>]

NumberValue(ds) == [kind |-> "Number", parts |-> ds, args |-> <<>>]

BinaryOp(l, op, r) == [kind |-> "BinaryOp", parts |-> <<op>>, args |-> <<l, r>>]

SingleQuotedString(v) == [kind |-> "SingleQuotedString", parts |-> <<v>>, args |-> <<>>]

BooleanValue(b) == [kind |-> "Boolean", parts |-> <<IF b THEN "true" ELSE "false">>, args |-> <<>>]

MapFunction(keys, vals) == [kind |-> "Function", parts |-> <<"MAP">> \o keys, args |-> vals]

RECURSIVE DisplayExpr(_)
DisplayExpr(e) ==
    CASE e.kind = "Identifier" -> e.parts
      [] e.kind = "CompoundIdentifier" -> Join([i \in 1..Len(e.parts) |-> <<e.parts[i]>>], <<".">>)
      [] e.kind = "Number" -> e.parts
      [] e.kind = "Boolean" -> e.parts
      [] e.kind = "SingleQuotedString" -> <<"'", e.parts[1], "'">>
      [] e.kind = "BinaryOp" ->
            DisplayExpr(e.args[1]) \o <<" ", e.parts[1], " ">> \o DisplayExpr(e.args[2])
      [] e.kind = "Function" ->
            <<e.parts[1], "(">>
              \o Join([i \in 1..Len(e.args) |->
                        <<e.parts[i + 1], " ", ":", " ">> \o DisplayExpr(e.args[i])],
                      <<",", " ">>)
              \o <<")">>

IsKeyword(tok, k) == tok.t = "Word" /\ tok.v = <<k>>

parse_keyword(toks, pos, k) == IsKeyword(peek_token(toks, pos), k)

expect_keyword(toks, pos, k) ==
    IF parse_keyword(toks, pos, k) THEN Ok(pos + 1, <<>>) ELSE Err(pos, k)

ReservedWords ==
    {"MATCH", "OPTIONAL", "CREATE", "MERGE", "DELETE", "DETACH", "WHERE", "RETURN",
     "DISTINCT", "ORDER", "BY", "SKIP", "LIMIT", "ON", "SET", "AND", "OR", "AS",
     "ASC", "DESC"}

RECURSIVE CompoundTail(_, _, _)
CompoundTail(toks, pos, ps) ==
    IF consume_token(toks, pos, "Period") /\ peek_nth_token(toks, pos, 1).t = "Word"
    THEN CompoundTail(toks, pos + 2, Append(ps, peek_nth_token(toks, pos, 1).v[1]))
    ELSE Ok(pos, IF Len(ps) = 1 THEN Identifier(ps[1]) ELSE CompoundIdentifier(ps))

ParsePrimary(toks, pos) ==
    IF peek_token(toks, pos).t = "Word" /\ peek_token(toks, pos).v[1] \notin ReservedWords
    THEN CompoundTail(toks, pos + 1, peek_token(toks, pos).v)
    ELSE IF peek_token(toks, pos).t = "Number"
         THEN Ok(pos + 1, NumberValue(peek_token(toks, pos).v))
    ELSE Err(pos, "an expression")

ComparisonOp(tok) ==
    CASE tok.t = "Eq" -> "="
      [] tok.t = "Gt" -> ">"
      [] tok.t = "Lt" -> "<"
      [] OTHER -> ""

ComparisonRight(toks, l, r) ==
    IF ~r.ok THEN r
    ELSE Ok(r.pos, BinaryOp(l.val, ComparisonOp(peek_token(toks, l.pos)), r.val))

ComparisonFrom(toks, l) ==
    IF ~l.ok THEN l
    ELSE IF ComparisonOp(peek_token(toks, l.pos)) # ""
         THEN ComparisonRight(toks, l, ParsePrimary(toks, l.pos + 1))
    ELSE l

ParseComparison(toks, pos) == ComparisonFrom(toks, ParsePrimary(toks, pos))

RECURSIVE AndTail(_, _, _)
AndTailNext(toks, left, r) ==
    IF ~r.ok THEN r ELSE AndTail(toks, r.pos, BinaryOp(left, "AND", r.val))

AndTail(toks, pos, left) ==
    IF parse_keyword(toks, pos, "AND")
    THEN AndTailNext(toks, left, ParseComparison(toks, pos + 1))
    ELSE Ok(pos, left)

ConjunctionFrom(toks, c) == IF ~c.ok THEN c ELSE AndTail(toks, c.pos, c.val)

ParseConjunction(toks, pos) == ConjunctionFrom(toks, ParseComparison(toks, pos))

RECURSIVE OrTail(_, _, _)
OrTailNext(toks, left, r) ==
    IF ~r.ok THEN r ELSE OrTail(toks, r.pos, BinaryOp(left, "OR", r.val))

OrTail(toks, pos, left) ==
    IF parse_keyword(toks, pos, "OR")
    THEN OrTailNext(toks, left, ParseConjunction(toks, pos + 1))
    ELSE Ok(pos, left)

ExprFrom(toks, c) == IF ~c.ok THEN c ELSE OrTail(toks, c.pos, c.val)

(* parse_expr: comparisons, joined by AND, joined by OR (AND binds tighter).*)
parse_expr(toks, pos) == ExprFrom(toks, ParseConjunction(toks, pos))

(***************************************************************************)
(* Patterns (src/ast/cypher.rs): PatternElement, Pattern and their Display.*)
(***************************************************************************)
Node(variable, labels, properties) ==
    [kind |-> "Node", variable |-> variable, labels |-> labels,
     properties |-> properties]

Relationship(variable, types, properties, direction, length) ==
    [kind |-> "Relationship", variable |-> variable, types |-> types,
     properties |-> properties, direction |-> direction, length |-> length]

Pattern(elements) == [elements |-> elements]

RelationshipDirections == {"Left", "Right", "Both", "None"}

DisplayPatternElement(e) ==
    IF e.kind = "Node"
    THEN <<"(">>
           \o (IF IsSome(e.variable) THEN e.variable ELSE <<>>)
           \o Flatten([i \in 1..Len(e.labels) |-> <<":", e.labels[i]>>])
           \o (IF IsSome(e.properties) THEN <<" ">> \o DisplayExpr(e.properties[1]) ELSE <<>>)
           \o <<")">>
    ELSE (IF e.direction \in {"Left", "Both"} THEN <<"<">> ELSE <<>>)
           \o <<"[">>
           \o (IF IsSome(e.variable) THEN e.variable ELSE <<>>)
           \o Flatten([i \in 1..Len(e.types) |->
                        <<(IF i = 1 THEN ":" ELSE "|"), e.types[i]>>])
           \o (IF IsSome(e.length) THEN DisplayRelationshipLength(e.length[1]) ELSE <<>>)
           \o (IF IsSome(e.properties) THEN <<" ">> \o DisplayExpr(e.properties[1]) ELSE <<>>)
           \o <<"]">>
           \o (IF e.direction \in {"Right", "Both"} THEN <<">">> ELSE <<>>)

DisplayPattern(p) ==
    Join([i \in 1..Len(p.elements) |-> DisplayPatternElement(p.elements[i])], <<"-">>)

(***************************************************************************)
(* Pattern parser (src/parser/cypher.rs).                                  *)
(***************************************************************************)
RECURSIVE MapEntries(_, _, _, _)
MapEntryEnd(toks, keys, vals, key, v) ==
    IF ~v.ok THEN v
    ELSE IF consume_token(toks, v.pos, "Comma")
         THEN MapEntries(toks, v.pos + 1, Append(keys, key.val), Append(vals, v.val))
    ELSE Ok(v.pos, MapFunction(Append(keys, key.val), Append(vals, v.val)))

MapEntryValue(toks, keys, vals, key, c) ==
    IF ~c.ok THEN c ELSE MapEntryEnd(toks, keys, vals, key, parse_expr(toks, c.pos))

MapEntryColon(toks, keys, vals, key) ==
    IF ~key.ok THEN key
    ELSE MapEntryValue(toks, keys, vals, key, expect_token(toks, key.pos, "Colon", ":"))

(* The entry loop of parse_map_literal: key `:` value, then `,` or the end. *)
MapEntries(toks, pos, keys, vals) ==
    MapEntryColon(toks, keys, vals, parse_identifier(toks, pos))

MapLiteralClose(toks, es) ==
    IF ~es.ok THEN es ELSE Expecting(expect_token(toks, es.pos, "RBrace", "}"), es.val)

parse_map_literal(toks, pos) ==
    IF consume_token(toks, pos, "RBrace") THEN Ok(pos + 1, MapFunction(<<>>, <<>>))
    ELSE MapLiteralClose(toks, MapEntries(toks, pos, <<>>, <<>>))

PropertiesClose(toks, m) ==
    IF ~m.ok THEN m ELSE Expecting(expect_token(toks, m.pos, "RBrace", "}"), Some(m.val))

(* `{` parse_map_literal, then expect_token(RBrace) once more.             *)
ParseProperties(toks, pos) ==
    IF consume_token(toks, pos, "LBrace")
    THEN PropertiesClose(toks, parse_map_literal(toks, pos + 1))
    ELSE Ok(pos, None)

RECURSIVE ParseLabels(_, _, _)
LabelsNext(toks, labels, id) ==
    IF ~id.ok THEN id ELSE ParseLabels(toks, id.pos, Append(labels, id.val))

ParseLabels(toks, pos, labels) ==
    IF consume_token(toks, pos, "Colon")
    THEN LabelsNext(toks, labels, parse_identifier(toks, pos + 1))
    ELSE Ok(pos, labels)

(* parse_cypher_node without the closing expect_token(RParen).             *)
NodeCloseUnchecked(toks, variable, ls, pr) ==
    IF ~pr.ok THEN pr ELSE Ok(pr.pos, Node(variable, ls.val, pr.val))

NodeClose(toks, variable, ls, pr) ==
    IF ~pr.ok THEN pr
    ELSE Expecting(expect_token(toks, pr.pos, "RParen", ")"),
                   Node(variable, ls.val, pr.val))

NodeProperties(toks, variable, ls) ==
    IF ~ls.ok THEN ls ELSE NodeClose(toks, variable, ls, ParseProperties(toks, ls.pos))

(* parse_cypher_node that never takes a leading word as the variable.     *)
parse_cypher_node_no_variable(toks, pos) ==
    NodeProperties(toks, None, ParseLabels(toks, pos, <<>>))

(* Called after `(` was consumed.  A leading word is the variable in each   *)
(* of the three branches (before `:`, before `)`, before anything else).   *)
parse_cypher_node(toks, pos) ==
    NodeProperties(toks,
                   IF peek_token(toks, pos).t = "Word"
                   THEN Some(peek_token(toks, pos).v[1]) ELSE None,
                   ParseLabels(toks,
                               IF peek_token(toks, pos).t = "Word" THEN pos + 1 ELSE pos,
                               <<>>))

RECURSIVE ParsePipeTypes(_, _, _)
PipeTypesNext(toks, types, id) ==
    IF ~id.ok THEN id ELSE ParsePipeTypes(toks, id.pos, Append(types, id.val))

ParsePipeTypes(toks, pos, types) ==
    IF consume_token(toks, pos, "Pipe")
    THEN PipeTypesNext(toks, types, parse_identifier(toks, pos + 1))
    ELSE Ok(pos, types)

RECURSIVE ParseTypes(_, _, _)
TypesNext(toks, ps) == IF ~ps.ok THEN ps ELSE ParseTypes(toks, ps.pos, ps.val)

TypesFirst(toks, types, id) ==
    IF ~id.ok THEN id
    ELSE TypesNext(toks, ParsePipeTypes(toks, id.pos, Append(types, id.val)))

ParseTypes(toks, pos, types) ==
    IF consume_token(toks, pos, "Colon")
    THEN TypesFirst(toks, types, parse_identifier(toks, pos + 1))
    ELSE Ok(pos, types)

NoDetails == [variable |-> None, types |-> <<>>, length |-> None, properties |-> None]

DetailsClose(toks, variable, ts, len, pr) ==
    IF ~pr.ok THEN pr
    ELSE Expecting(expect_token(toks, pr.pos, "RBracket", "]"),
                   [variable |-> variable, types |-> ts.val,
                    length |-> len.val, properties |-> pr.val])

DetailsProperties(toks, variable, ts, len) ==
    IF ~len.ok THEN len
    ELSE DetailsClose(toks, variable, ts, len, ParseProperties(toks, len.pos))

DetailsLength(toks, variable, ts) ==
    IF ~ts.ok THEN ts
    ELSE DetailsProperties(toks, variable, ts,
                           IF consume_token(toks, ts.pos, "Mul")
                           THEN OptionalOf(parse_cypher_relationship_length(toks, ts.pos + 1))
                           ELSE Ok(ts.pos, None))

(* A leading word is the variable when `:` or `]` follows it.              *)
HasRelationshipVariable(toks, pos) ==
    /\ peek_token(toks, pos).t = "Word"
    /\ peek_nth_token(toks, pos, 1).t \in {"Colon", "RBracket"}

(* The `[...]` part of a relationship, called after `[` was consumed.      *)
ParseRelationshipDetails(toks, pos) ==
    DetailsLength(toks,
                  IF HasRelationshipVariable(toks, pos)
                  THEN Some(peek_token(toks, pos).v[1]) ELSE None,
                  ParseTypes(toks,
                             IF HasRelationshipVariable(toks, pos) THEN pos + 1 ELSE pos,
                             <<>>))

Direction(direction_left, direction_right) ==
    CASE direction_left /\ direction_right -> "Both"
      [] direction_left /\ ~direction_right -> "Left"
      [] ~direction_left /\ direction_right -> "Right"
      [] ~direction_left /\ ~direction_right -> "None"

RelationshipOf(d, direction) ==
    Relationship(d.val.variable, d.val.types, d.val.properties, direction, d.val.length)

(* After the details: `->`, or `-` and an optional `>`.                    *)
RelationshipEnd(toks, direction_left, d) ==
    IF ~d.ok THEN d
    ELSE IF consume_token(toks, d.pos, "Arrow")
         THEN Ok(d.pos + 1, RelationshipOf(d, Direction(direction_left, TRUE)))
    ELSE IF consume_token(toks, d.pos, "Minus")
         THEN Ok(IF consume_token(toks, d.pos + 1, "Gt") THEN d.pos + 2 ELSE d.pos + 1,
                 RelationshipOf(d, Direction(direction_left,
                                             consume_token(toks, d.pos + 1, "Gt"))))
    ELSE Err(d.pos, "relationship direction (- or ->)")

RelationshipDetails(toks, direction_left, m) ==
    IF ~m.ok THEN m
    ELSE RelationshipEnd(toks, direction_left,
                         IF consume_token(toks, m.pos, "LBracket")
                         THEN ParseRelationshipDetails(toks, m.pos + 1)
                         ELSE Ok(m.pos, NoDetails))

parse_cypher_relationship(toks, pos) ==
    RelationshipDetails(toks, consume_token(toks, pos, "Lt"),
                        expect_token(toks,
                                     IF consume_token(toks, pos, "Lt") THEN pos + 1 ELSE pos,
                                     "Minus", "-"))

RECURSIVE PatternTail(_, _, _)
PatternTailNext(toks, elements, r, n) ==
    IF ~n.ok THEN n ELSE PatternTail(toks, n.pos, elements \o <<r.val, n.val>>)

(* The loop body without the error for a missing node: the pattern ends   *)
(* with the relationship.                                                  *)
PatternTailNodeOptional(toks, elements, r) ==
    IF ~r.ok THEN r
    ELSE IF consume_token(toks, r.pos, "LParen")
         THEN PatternTailNext(toks, elements, r, parse_cypher_node(toks, r.pos + 1))
    ELSE Ok(r.pos, Pattern(Append(elements, r.val)))

PatternTailNode(toks, elements, r) ==
    IF ~r.ok THEN r
    ELSE IF consume_token(toks, r.pos, "LParen")
         THEN PatternTailNext(toks, elements, r, parse_cypher_node(toks, r.pos + 1))
    ELSE Err(r.pos, "node after relationship")

(* The loop of parse_cypher_pattern: while `-` or `<` follows, a           *)
(* relationship and then a node.                                           *)
PatternTail(toks, pos, elements) ==
    IF peek_token(toks, pos).t \in {"Minus", "Lt"}
    THEN PatternTailNode(toks, elements, parse_cypher_relationship(toks, pos))
    ELSE Ok(pos, Pattern(elements))

PatternFirst(toks, n) == IF ~n.ok THEN n ELSE PatternTail(toks, n.pos, <<n.val>>)

parse_cypher_pattern(toks, pos) ==
    IF consume_token(toks, pos, "LParen")
    THEN PatternFirst(toks, parse_cypher_node(toks, pos + 1))
    ELSE Err(pos, "pattern starting with '('")

(***************************************************************************)
(* Statements and clauses (src/ast/cypher.rs).                             *)
(***************************************************************************)
Match(optional, patterns, where, return) ==
    [kind |-> "Match", optional |-> optional, patterns |-> patterns,
     where |-> where, return |-> return]

Create(patterns) == [kind |-> "Create", patterns |-> patterns]

Merge(patterns, on_create, on_match) ==
    [kind |-> "Merge", patterns |-> patterns, on_create |-> on_create,
     on_match |-> on_match]

Delete(detach, what, where) ==
    [kind |-> "Delete", detach |-> detach, what |-> what, where |-> where]

ReturnClause(distinct, items, order_by, limit, skip) ==
    [distinct |-> distinct, items |-> items, order_by |-> order_by,
     limit |-> limit, skip |-> skip]

UnnamedExpr(e) == [kind |-> "UnnamedExpr", expr |-> Some(e), alias |-> None]

ExprWithAlias(e, a) == [kind |-> "ExprWithAlias", expr |-> Some(e), alias |-> Some(a)]

Wildcard == [kind |-> "Wildcard", expr |-> None, alias |-> None]

OrderByExpr(e, asc) == [expr |-> e, asc |-> asc]

SetClause(target, val) == [target |-> target, value |-> val]

SetTarget(kind, variable, name) == [kind |-> kind, variable |-> variable, name |-> name]

DisplaySelectItem(item) ==
    CASE item.kind = "UnnamedExpr" -> DisplayExpr(item.expr[1])
      [] item.kind = "ExprWithAlias" ->
            DisplayExpr(item.expr[1]) \o <<" ", "AS", " ">> \o item.alias
      [] OTHER -> <<"*">>

DisplayOrderByExpr(o) ==
    DisplayExpr(o.expr)
      \o (IF IsSome(o.asc) THEN <<" ", IF o.asc[1] THEN "ASC" ELSE "DESC">> ELSE <<>>)

DisplayReturnClause(r) ==
    <<"RETURN">>
      \o (IF r.distinct THEN <<" ", "DISTINCT">> ELSE <<>>)
      \o <<" ">>
      \o Join([i \in 1..Len(r.items) |-> DisplaySelectItem(r.items[i])], <<",", " ">>)
      \o (IF r.order_by # <<>>
          THEN <<" ", "ORDER", " ", "BY", " ">>
                 \o Join([i \in 1..Len(r.order_by) |-> DisplayOrderByExpr(r.order_by[i])],
                         <<",", " ">>)
          ELSE <<>>)
      \o (IF IsSome(r.skip) THEN <<" ", "SKIP", " ">> \o DisplayExpr(r.skip[1]) ELSE <<>>)
      \o (IF IsSome(r.limit) THEN <<" ", "LIMIT", " ">> \o DisplayExpr(r.limit[1]) ELSE <<>>)

(***************************************************************************)
(* Statement parser (src/parser/cypher.rs).                                *)
(***************************************************************************)
RECURSIVE PatternsFrom(_, _, _)
PatternsNext(toks, patterns, p) ==
    IF ~p.ok THEN p
    ELSE IF consume_token(toks, p.pos, "Comma")
         THEN PatternsFrom(toks, p.pos + 1, Append(patterns, p.val))
    ELSE Ok(p.pos, Append(patterns, p.val))

(* parse_comma_separated: a pattern, and while `,` follows, one more.      *)
PatternsFrom(toks, pos, patterns) ==
    PatternsNext(toks, patterns, parse_cypher_pattern(toks, pos))

parse_cypher_patterns(toks, pos) == PatternsFrom(toks, pos, <<>>)

(* `WHERE expr`, `SKIP expr`, `LIMIT expr`: optional.                      *)
ParseOptionalExpr(toks, pos, keyword) ==
    IF parse_keyword(toks, pos, keyword)
    THEN OptionalOf(parse_expr(toks, pos + 1))
    ELSE Ok(pos, None)

SelectItemAlias(e, a) == IF ~a.ok THEN a ELSE Ok(a.pos, ExprWithAlias(e.val, a.val))

SelectItemFrom(toks, e) ==
    IF ~e.ok THEN e
    ELSE IF parse_keyword(toks, e.pos, "AS")
         THEN SelectItemAlias(e, parse_identifier(toks, e.pos + 1))
    ELSE Ok(e.pos, UnnamedExpr(e.val))

parse_select_item(toks, pos) ==
    IF consume_token(toks, pos, "Mul") THEN Ok(pos + 1, Wildcard)
    ELSE SelectItemFrom(toks, parse_expr(toks, pos))

RECURSIVE ProjectionFrom(_, _, _)
ProjectionNext(toks, items, i) ==
    IF ~i.ok THEN i
    ELSE IF consume_token(toks, i.pos, "Comma")
         THEN ProjectionFrom(toks, i.pos + 1, Append(items, i.val))
    ELSE Ok(i.pos, Append(items, i.val))

ProjectionFrom(toks, pos, items) ==
    ProjectionNext(toks, items, parse_select_item(toks, pos))

parse_projection(toks, pos) == ProjectionFrom(toks, pos, <<>>)

OrderByFrom(toks, e) ==
    IF ~e.ok THEN e
    ELSE IF parse_keyword(toks, e.pos, "ASC") THEN Ok(e.pos + 1, OrderByExpr(e.val, Some(TRUE)))
    ELSE IF parse_keyword(toks, e.pos, "DESC") THEN Ok(e.pos + 1, OrderByExpr(e.val, Some(FALSE)))
    ELSE Ok(e.pos, OrderByExpr(e.val, None))

parse_order_by_expr(toks, pos) == OrderByFrom(toks, parse_expr(toks, pos))

(* vec![self.parse_order_by_expr()?]                                       *)
VecOf(o) == IF ~o.ok THEN o ELSE Ok(o.pos, <<o.val>>)

ReturnEnd(distinct, items, order_by, skip, limit) ==
    IF ~limit.ok THEN limit
    ELSE Ok(limit.pos,
            ReturnClause(distinct, items.val, order_by.val, limit.val, skip.val))

ReturnLimit(toks, distinct, items, order_by, skip) ==
    IF ~skip.ok THEN skip
    ELSE ReturnEnd(distinct, items, order_by, skip,
                   ParseOptionalExpr(toks, skip.pos, "LIMIT"))

(* The RETURN clause without its SKIP step.                                *)
ReturnSkipIgnored(toks, distinct, items, order_by) ==
    IF ~order_by.ok THEN order_by
    ELSE ReturnLimit(toks, distinct, items, order_by, Ok(order_by.pos, None))

ReturnSkip(toks, distinct, items, order_by) ==
    IF ~order_by.ok THEN order_by
    ELSE ReturnLimit(toks, distinct, items, order_by,
                     ParseOptionalExpr(toks, order_by.pos, "SKIP"))

ReturnOrderBy(toks, distinct, items) ==
    IF ~items.ok THEN items
    ELSE ReturnSkip(toks, distinct, items,
                    IF parse_keyword(toks, items.pos, "ORDER")
                       /\ IsKeyword(peek_nth_token(toks, items.pos, 1), "BY")
                    THEN VecOf(parse_order_by_expr(toks, items.pos + 2))
                    ELSE Ok(items.pos, <<>>))

(* Called with the parser after RETURN.                                    *)
parse_cypher_return_clause(toks, pos) ==
    ReturnOrderBy(toks, parse_keyword(toks, pos, "DISTINCT"),
                  parse_projection(toks,
                                   IF parse_keyword(toks, pos, "DISTINCT")
                                   THEN pos + 1 ELSE pos))

MatchEnd(optional, patterns, where, return) ==
    IF ~return.ok THEN return
    ELSE Ok(return.pos, Match(optional, patterns.val, where.val, return.val))

MatchReturn(toks, optional, patterns, where) ==
    IF ~where.ok THEN where
    ELSE MatchEnd(optional, patterns, where,
                  IF parse_keyword(toks, where.pos, "RETURN")
                  THEN OptionalOf(parse_cypher_return_clause(toks, where.pos + 1))
                  ELSE Ok(where.pos, None))

MatchWhere(toks, optional, patterns) ==
    IF ~patterns.ok THEN patterns
    ELSE MatchReturn(toks, optional, patterns,
                     ParseOptionalExpr(toks, patterns.pos, "WHERE"))

(* parse_cypher_match_with_optional from the patterns on.                  *)
ParseMatchBody(toks, k, optional) ==
    IF ~k.ok THEN k ELSE MatchWhere(toks, optional, parse_cypher_patterns(toks, k.pos))

parse_cypher_match_with_optional(toks, pos, optional) ==
    ParseMatchBody(toks,
                   IF ~optional THEN expect_keyword(toks, pos, "MATCH") ELSE Ok(pos, <<>>),
                   optional)

parse_cypher_match(toks, pos) == parse_cypher_match_with_optional(toks, pos, FALSE)

CreateEnd(patterns) ==
    IF ~patterns.ok THEN patterns ELSE Ok(patterns.pos, Create(patterns.val))

CreatePatterns(toks, k) ==
    IF ~k.ok THEN k ELSE CreateEnd(parse_cypher_patterns(toks, k.pos))

parse_cypher_create(toks, pos) == CreatePatterns(toks, expect_keyword(toks, pos, "CREATE"))

SetTargetOf(kind, variable, name) ==
    IF ~name.ok THEN name ELSE Ok(name.pos, SetTarget(kind, variable.val, Some(name.val)))

SetTargetFrom(toks, variable) ==
    IF ~variable.ok THEN variable
    ELSE IF consume_token(toks, variable.pos, "Period")
         THEN SetTargetOf("Property", variable, parse_identifier(toks, variable.pos + 1))
    ELSE IF consume_token(toks, variable.pos, "Colon")
         THEN SetTargetOf("Label", variable, parse_identifier(toks, variable.pos + 1))
    ELSE Ok(variable.pos, SetTarget("Variable", variable.val, None))

parse_cypher_set_target(toks, pos) == SetTargetFrom(toks, parse_identifier(toks, pos))

SetClauseEnd(target, v) == IF ~v.ok THEN v ELSE Ok(v.pos, SetClause(target.val, v.val))

SetClauseValue(toks, target, eq) ==
    IF ~eq.ok THEN eq ELSE SetClauseEnd(target, parse_expr(toks, eq.pos))

SetClauseEq(toks, target) ==
    IF ~target.ok THEN target
    ELSE SetClauseValue(toks, target, expect_token(toks, target.pos, "Eq", "="))

parse_cypher_set_clause(toks, pos) == SetClauseEq(toks, parse_cypher_set_target(toks, pos))

RECURSIVE SetClausesFrom(_, _, _)
SetClausesNext(toks, clauses, c) ==
    IF ~c.ok THEN c
    ELSE IF consume_token(toks, c.pos, "Comma")
         THEN SetClausesFrom(toks, c.pos + 1, Append(clauses, c.val))
    ELSE Ok(c.pos, Append(clauses, c.val))

SetClausesFrom(toks, pos, clauses) ==
    SetClausesNext(toks, clauses, parse_cypher_set_clause(toks, pos))

parse_cypher_set_clauses(toks, pos) == SetClausesFrom(toks, pos, <<>>)

RECURSIVE MergeOnClauses(_, _, _, _, _)
(* The loop keeping the first ON CREATE / ON MATCH block instead of the    *)
(* last.                                                                   *)
MergeOnSetFirstWins(toks, patterns, on_create, on_match, create, c) ==
    IF ~c.ok THEN c
    ELSE MergeOnClauses(toks, c.pos, patterns,
                        IF create /\ ~IsSome(on_create) THEN Some(c.val) ELSE on_create,
                        IF ~create /\ ~IsSome(on_match) THEN Some(c.val) ELSE on_match)

MergeOnSet(toks, patterns, on_create, on_match, create, c) ==
    IF ~c.ok THEN c
    ELSE MergeOnClauses(toks, c.pos, patterns,
                        IF create THEN Some(c.val) ELSE on_create,
                        IF create THEN on_match ELSE Some(c.val))

MergeOnKeyword(toks, patterns, on_create, on_match, create, k) ==
    IF ~k.ok THEN k
    ELSE MergeOnSet(toks, patterns, on_create, on_match, create,
                    parse_cypher_set_clauses(toks, k.pos))

(* The `ON CREATE SET` / `ON MATCH SET` loop of parse_cypher_merge.        *)
MergeOnClauses(toks, pos, patterns, on_create, on_match) ==
    IF parse_keyword(toks, pos, "ON")
    THEN IF parse_keyword(toks, pos + 1, "CREATE") \/ parse_keyword(toks, pos + 1, "MATCH")
         THEN MergeOnKeyword(toks, patterns, on_create, on_match,
                             parse_keyword(toks, pos + 1, "CREATE"),
                             expect_keyword(toks, pos + 2, "SET"))
         ELSE Err(pos + 1, "CREATE or MATCH after ON")
    ELSE Ok(pos, Merge(patterns, on_create, on_match))

MergeOn(toks, patterns) ==
    IF ~patterns.ok THEN patterns
    ELSE MergeOnClauses(toks, patterns.pos, patterns.val, None, None)

MergePatterns(toks, k) ==
    IF ~k.ok THEN k ELSE MergeOn(toks, parse_cypher_patterns(toks, k.pos))

parse_cypher_merge(toks, pos) == MergePatterns(toks, expect_keyword(toks, pos, "MERGE"))

RECURSIVE ExprsFrom(_, _, _)
ExprsNext(toks, exprs, e) ==
    IF ~e.ok THEN e
    ELSE IF consume_token(toks, e.pos, "Comma")
         THEN ExprsFrom(toks, e.pos + 1, Append(exprs, e.val))
    ELSE Ok(e.pos, Append(exprs, e.val))

(* parse_comma_separated(parse_expr): an expression, and while `,`         *)
(* follows, one more.                                                      *)
ExprsFrom(toks, pos, exprs) == ExprsNext(toks, exprs, parse_expr(toks, pos))

DeleteEnd(detach, what, where) ==
    IF ~where.ok THEN where ELSE Ok(where.pos, Delete(detach, what.val, where.val))

DeleteWhere(toks, detach, what) ==
    IF ~what.ok THEN what
    ELSE DeleteEnd(detach, what, ParseOptionalExpr(toks, what.pos, "WHERE"))

(* The part shared by parse_cypher_delete and parse_cypher_detach_delete:  *)
(* after the keywords, the target list and the optional WHERE.             *)
ParseDeleteBody(toks, k, detach) ==
    IF ~k.ok THEN k ELSE DeleteWhere(toks, detach, ExprsFrom(toks, k.pos, <<>>))

parse_cypher_delete(toks, pos) ==
    ParseDeleteBody(toks, expect_keyword(toks, pos, "DELETE"), FALSE)

DetachDelete(toks, k) == IF ~k.ok THEN k ELSE expect_keyword(toks, k.pos, "DELETE")

parse_cypher_detach_delete(toks, pos) ==
    ParseDeleteBody(toks, DetachDelete(toks, expect_keyword(toks, pos, "DETACH")), TRUE)

(* OPTIONAL: next_token, expect MATCH, then the match with optional = true. *)
OptionalMatch(toks, k) ==
    IF ~k.ok THEN k ELSE parse_cypher_match_with_optional(toks, k.pos, TRUE)

(* parse_cypher_statement with DETACH dispatched as a plain DELETE.         *)
parse_cypher_statement_detach_lost(toks, pos) ==
    CASE parse_keyword(toks, pos, "MATCH") -> parse_cypher_match(toks, pos)
      [] parse_keyword(toks, pos, "OPTIONAL") ->
            OptionalMatch(toks, expect_keyword(toks, Advance(toks, pos), "MATCH"))
      [] parse_keyword(toks, pos, "CREATE") -> parse_cypher_create(toks, pos)
      [] parse_keyword(toks, pos, "MERGE") -> parse_cypher_merge(toks, pos)
      [] parse_keyword(toks, pos, "DELETE") -> parse_cypher_delete(toks, pos)
      [] parse_keyword(toks, pos, "DETACH") ->
            ParseDeleteBody(toks, DetachDelete(toks, expect_keyword(toks, pos, "DETACH")),
                            FALSE)
      [] OTHER -> Err(pos, "MATCH, CREATE, MERGE, or DELETE")

parse_cypher_statement(toks, pos) ==
    CASE parse_keyword(toks, pos, "MATCH") -> parse_cypher_match(toks, pos)
      [] parse_keyword(toks, pos, "OPTIONAL") ->
            OptionalMatch(toks, expect_keyword(toks, Advance(toks, pos), "MATCH"))
      [] parse_keyword(toks, pos, "CREATE") -> parse_cypher_create(toks, pos)
      [] parse_keyword(toks, pos, "MERGE") -> parse_cypher_merge(toks, pos)
      [] parse_keyword(toks, pos, "DELETE") -> parse_cypher_delete(toks, pos)
      [] parse_keyword(toks, pos, "DETACH") -> parse_cypher_detach_delete(toks, pos)
      [] OTHER -> Err(pos, "MATCH, CREATE, MERGE, or DELETE")

(***************************************************************************)
(* transform_cypher_to_sql_basic (src/transformer/mod.rs): the translation *)
(* behind the library entry point transform_cypher_to_sql.  The SQL text   *)
(* is a sequence of pieces; the result also carries the clause lists the   *)
(* function builds.                                                        *)
(***************************************************************************)
Contains(txt, c) == \E i \in 1..Len(txt) : txt[i] = c

RECURSIVE SplitFrom(_, _, _, _)
SplitFrom(txt, c, cur, acc) ==
    IF txt = <<>> THEN Append(acc, cur)
    ELSE IF Head(txt) = c THEN SplitFrom(Tail(txt), c, <<>>, Append(acc, cur))
    ELSE SplitFrom(Tail(txt), c, Append(cur, Head(txt)), acc)

(* str::split: the pieces between the separators, empty ones included.     *)
Split(txt, c) == SplitFrom(txt, c, <<>>, <<>>)

(* format!("n{}", node_counter) / format!("r{}", rel_counter): the         *)
(* generated name is an identifier, one piece of text.                     *)
GeneratedAlias(prefix, counter) ==
    IF prefix = "n"
    THEN <<"n1", "n2", "n3", "n4", "n5", "n6", "n7", "n8", "n9", "n10", "n11", "n12">>[counter]
    ELSE <<"r1", "r2", "r3", "r4", "r5", "r6", "r7", "r8", "r9", "r10", "r11", "r12">>[counter]

(* The test that selects the dotted-property rewrite: the text contains a   *)
(* `.` and splitting on `.` gives exactly two parts.                       *)
IsPropertyAccess(expr_str) ==
    Contains(expr_str, ".") /\ Len(Split(expr_str, ".")) = 2

JsonExtract(parts) ==
    <<"json_extract(">> \o parts[1] \o <<".properties, '$.">> \o parts[2]

TransformSelectItem(item) ==
    CASE item.kind = "UnnamedExpr" ->
            LET expr_str == DisplayExpr(item.expr[1])
                parts == Split(expr_str, ".") IN
            IF IsPropertyAccess(expr_str)
            THEN JsonExtract(parts) \o <<"') as ">> \o parts[2]
            ELSE expr_str
      [] item.kind = "ExprWithAlias" ->
            LET expr_str == DisplayExpr(item.expr[1])
                parts == Split(expr_str, ".") IN
            IF IsPropertyAccess(expr_str)
            THEN JsonExtract(parts) \o <<"') AS ">> \o item.alias
            ELSE expr_str \o <<" AS ">> \o item.alias
      [] OTHER -> <<"*">>

TransformOrderItemDirected(item) ==
    LET expr_str == DisplayExpr(item.expr)
        parts == Split(expr_str, ".")
        direction == IF item.asc = Some(FALSE) THEN "DESC" ELSE "ASC" IN
    IF IsPropertyAccess(expr_str)
    THEN JsonExtract(parts) \o <<"') ", direction>>
    ELSE expr_str \o <<" ", direction>>

TransformOrderItem(item) ==
    LET expr_str == DisplayExpr(item.expr)
        parts == Split(expr_str, ".") IN
    IF IsPropertyAccess(expr_str)
    THEN JsonExtract(parts) \o <<"') ASC">>
    ELSE expr_str \o <<" ASC">>

MatchStart ==
    [node_counter |-> 0, rel_counter |-> 0, from_clauses |-> <<>>,
     join_clauses |-> <<>>, where_conditions |-> <<>>, prev_node_alias |-> None]

ProcessNodeLastLabel(acc, e) ==
    LET node_counter == acc.node_counter + 1
        alias == IF IsSome(e.variable) THEN e.variable[1]
                 ELSE GeneratedAlias("n", node_counter) IN
    [acc EXCEPT
       !.node_counter = node_counter,
       !.from_clauses = IF acc.from_clauses = <<>>
                        THEN Append(@, <<"nodes ", alias>>) ELSE @,
       !.join_clauses = IF acc.from_clauses = <<>> THEN @
                        ELSE Append(@, <<"JOIN nodes ", alias, " ON TRUE">>),
       !.where_conditions = IF e.labels # <<>>
                            THEN Append(@, <<alias, ".label = '", e.labels[Len(e.labels)], "'">>)
                            ELSE @,
       !.prev_node_alias = Some(alias)]

ProcessNodeAllLabels(acc, e) ==
    LET node_counter == acc.node_counter + 1
        alias == IF IsSome(e.variable) THEN e.variable[1]
                 ELSE GeneratedAlias("n", node_counter) IN
    [acc EXCEPT
       !.node_counter = node_counter,
       !.from_clauses = IF acc.from_clauses = <<>>
                        THEN Append(@, <<"nodes ", alias>>) ELSE @,
       !.join_clauses = IF acc.from_clauses = <<>> THEN @
                        ELSE Append(@, <<"JOIN nodes ", alias, " ON TRUE">>),
       !.where_conditions =
           @ \o [i \in 1..Len(e.labels) |-> <<alias, ".label = '", e.labels[i], "'">>],
       !.prev_node_alias = Some(alias)]

ProcessNode(acc, e) ==
    LET node_counter == acc.node_counter + 1
        alias == IF IsSome(e.variable) THEN e.variable[1]
                 ELSE GeneratedAlias("n", node_counter) IN
    [acc EXCEPT
       !.node_counter = node_counter,
       !.from_clauses = IF acc.from_clauses = <<>>
                        THEN Append(@, <<"nodes ", alias>>) ELSE @,
       !.join_clauses = IF acc.from_clauses = <<>> THEN @
                        ELSE Append(@, <<"JOIN nodes ", alias, " ON TRUE">>),
       !.where_conditions = IF e.labels # <<>>
                            THEN Append(@, <<alias, ".label = '", e.labels[1], "'">>)
                            ELSE @,
       !.prev_node_alias = Some(alias)]

ProcessRelationshipNoType(acc, e) ==
    LET rel_counter == acc.rel_counter + 1
        rel_alias == IF IsSome(e.variable) THEN e.variable[1]
                     ELSE GeneratedAlias("r", rel_counter) IN
    IF IsSome(acc.prev_node_alias)
    THEN [acc EXCEPT
            !.rel_counter = rel_counter,
            !.join_clauses =
                Append(@, <<"JOIN relationships ", rel_alias, " ON ",
                            acc.prev_node_alias[1], ".id = ", rel_alias, ".from_id">>)]
    ELSE [acc EXCEPT !.rel_counter = rel_counter]

ProcessRelationshipDirected(acc, e) ==
    LET rel_counter == acc.rel_counter + 1
        rel_alias == IF IsSome(e.variable) THEN e.variable[1]
                     ELSE GeneratedAlias("r", rel_counter) IN
    IF IsSome(acc.prev_node_alias)
    THEN [acc EXCEPT
            !.rel_counter = rel_counter,
            !.join_clauses =
                Append(@, <<"JOIN relationships ", rel_alias, " ON ",
                            acc.prev_node_alias[1], ".id = ", rel_alias,
                            IF e.direction = "Left" THEN ".to_id" ELSE ".from_id">>),
            !.where_conditions = IF e.types # <<>>
                                 THEN Append(@, <<rel_alias, ".type = '", e.types[1], "'">>)
                                 ELSE @]
    ELSE [acc EXCEPT !.rel_counter = rel_counter]

ProcessRelationshipLastType(acc, e) ==
    LET rel_counter == acc.rel_counter + 1
        rel_alias == IF IsSome(e.variable) THEN e.variable[1]
                     ELSE GeneratedAlias("r", rel_counter) IN
    IF IsSome(acc.prev_node_alias)
    THEN [acc EXCEPT
            !.rel_counter = rel_counter,
            !.join_clauses =
                Append(@, <<"JOIN relationships ", rel_alias, " ON ",
                            acc.prev_node_alias[1], ".id = ", rel_alias, ".from_id">>),
            !.where_conditions =
                IF e.types # <<>>
                THEN Append(@, <<rel_alias, ".type = '", e.types[Len(e.types)], "'">>)
                ELSE @]
    ELSE [acc EXCEPT !.rel_counter = rel_counter]

ProcessRelationship(acc, e) ==
    LET rel_counter == acc.rel_counter + 1
        rel_alias == IF IsSome(e.variable) THEN e.variable[1]
                     ELSE GeneratedAlias("r", rel_counter) IN
    IF IsSome(acc.prev_node_alias)
    THEN [acc EXCEPT
            !.rel_counter = rel_counter,
            !.join_clauses =
                Append(@, <<"JOIN relationships ", rel_alias, " ON ",
                            acc.prev_node_alias[1], ".id = ", rel_alias, ".from_id">>),
            !.where_conditions = IF e.types # <<>>
                                 THEN Append(@, <<rel_alias, ".type = '", e.types[1], "'">>)
                                 ELSE @]
    ELSE [acc EXCEPT !.rel_counter = rel_counter]

RECURSIVE ProcessElements(_, _)
ProcessElementsNodesOnly(acc, elements) ==
    IF elements = <<>> THEN acc
    ELSE ProcessElements(IF Head(elements).kind = "Node"
                         THEN ProcessNode(acc, Head(elements))
                         ELSE acc,
                         Tail(elements))

ProcessElements(acc, elements) ==
    IF elements = <<>> THEN acc
    ELSE ProcessElements(IF Head(elements).kind = "Node"
                         THEN ProcessNode(acc, Head(elements))
                         ELSE ProcessRelationship(acc, Head(elements)),
                         Tail(elements))

RECURSIVE ProcessPatterns(_, _)
ProcessPatternsCountersReset(acc, patterns) ==
    IF patterns = <<>> THEN acc
    ELSE ProcessPatterns(
             ProcessElements([acc EXCEPT !.prev_node_alias = None, !.node_counter = 0,
                                         !.rel_counter = 0],
                             Head(patterns).elements),
             Tail(patterns))

ProcessPatterns(acc, patterns) ==
    IF patterns = <<>> THEN acc
    ELSE ProcessPatterns(
             ProcessElements([acc EXCEPT !.prev_node_alias = None],
                             Head(patterns).elements),
             Tail(patterns))

SqlOk(txt, clauses) ==
    [ok |-> TRUE, val |-> txt, err |-> "", from_clauses |-> clauses.from_clauses,
     join_clauses |-> clauses.join_clauses,
     where_conditions |-> clauses.where_conditions]

SqlErr(msg) ==
    [ok |-> FALSE, val |-> <<>>, err |-> msg, from_clauses |-> <<>>,
     join_clauses |-> <<>>, where_conditions |-> <<>>]

WhereClauseAlways(where_conditions) ==
    <<" WHERE ">> \o Join(where_conditions, <<" AND ">>)

(* if !where_conditions.is_empty() { " WHERE " + join(" AND ") }           *)
WhereClause(where_conditions) ==
    IF where_conditions # <<>>
    THEN <<" WHERE ">> \o Join(where_conditions, <<" AND ">>)
    ELSE <<>>

TransformMatchBasic(stmt) ==
    LET ret == stmt.return
        items == IF IsSome(ret)
                 THEN [i \in 1..Len(ret[1].items) |-> TransformSelectItem(ret[1].items[i])]
                 ELSE <<>>
        walked == ProcessPatterns(MatchStart, stmt.patterns)
        clauses == [walked EXCEPT
                      !.where_conditions =
                          IF IsSome(stmt.where)
                          THEN Append(@, DisplayExpr(stmt.where[1])) ELSE @] IN
    SqlOk(<<"SELECT ">>
            \o (IF IsSome(ret) /\ ret[1].distinct THEN <<"DISTINCT ">> ELSE <<>>)
            \o (IF items = <<>> THEN <<"*">> ELSE Join(items, <<", ">>))
            \o <<" FROM ">>
            \o Join(clauses.from_clauses, <<", ">>)
            \o (IF clauses.join_clauses # <<>>
                THEN <<" ">> \o Join(clauses.join_clauses, <<" ">>) ELSE <<>>)
            \o WhereClause(clauses.where_conditions)
            \o (IF IsSome(ret) /\ ret[1].order_by # <<>>
                THEN <<" ORDER BY ">>
                       \o Join([i \in 1..Len(ret[1].order_by) |->
                                  TransformOrderItem(ret[1].order_by[i])], <<", ">>)
                ELSE <<>>)
            \o (IF IsSome(ret) /\ IsSome(ret[1].limit)
                THEN <<" LIMIT ">> \o DisplayExpr(ret[1].limit[1]) ELSE <<>>)
            \o (IF IsSome(ret) /\ IsSome(ret[1].skip)
                THEN <<" OFFSET ">> \o DisplayExpr(ret[1].skip[1]) ELSE <<>>),
          clauses)

InsertNode == "INSERT INTO nodes (label, properties) VALUES ("

InsertRelationship == "INSERT INTO relationships (from_id, to_id, type, properties) VALUES ("

CreateElement(e) ==
    IF e.kind = "Node"
    THEN <<InsertNode>>
           \o (IF e.labels # <<>> THEN <<"'", e.labels[1], "'">> ELSE <<"NULL">>)
           \o <<", ", "'{}')", ";\n">>
    ELSE <<InsertRelationship, "?, ?, ">>
           \o (IF e.types # <<>> THEN <<"'", e.types[1], "'">> ELSE <<"NULL">>)
           \o <<", ", "'{}')", ";\n">>

TrimNothing(txt, suffix) == txt

RECURSIVE TrimEndMatches(_, _)
TrimEndMatches(txt, suffix) ==
    IF txt # <<>> /\ txt[Len(txt)] = suffix
    THEN TrimEndMatches(SubSeq(txt, 1, Len(txt) - 1), suffix)
    ELSE txt

AllElementsFirstPattern(patterns) == patterns[1].elements

AllElements(patterns) == Flatten([i \in 1..Len(patterns) |-> patterns[i].elements])

TransformCreateBasic(stmt) ==
    LET elements == AllElements(stmt.patterns) IN
    SqlOk(TrimEndMatches(Flatten([i \in 1..Len(elements) |-> CreateElement(elements[i])]),
                         ";\n"),
          MatchStart)

NotImplementedComment ==
    "-- Transformation not yet implemented for this Cypher statement type"

transform_cypher_to_sql_basic(stmt) ==
    CASE stmt.kind = "Match" -> TransformMatchBasic(stmt)
      [] stmt.kind = "Create" -> TransformCreateBasic(stmt)
      [] OTHER -> SqlOk(<<NotImplementedComment>>, MatchStart)

(***************************************************************************)
(* transform_cypher_to_sql_basic of the command-line program               *)
(* (src/bin/cypher_transformer.rs:88-315): the binary carries its own copy *)
(* of the translation and calls that copy, not the library's.              *)
(***************************************************************************)
BinSelectItem(item) ==
    LET expr_str == DisplayExpr(item.expr[1])
        parts == Split(expr_str, ".") IN
    CASE item.kind = "UnnamedExpr" ->
            IF Contains(expr_str, ".") /\ Len(parts) = 2
            THEN <<"json_extract(">> \o parts[1] \o <<".properties, '$.">> \o parts[2]
                   \o <<"') as ">> \o parts[2]
            ELSE expr_str
      [] item.kind = "ExprWithAlias" ->
            IF Contains(expr_str, ".") /\ Len(parts) = 2
            THEN <<"json_extract(">> \o parts[1] \o <<".properties, '$.">> \o parts[2]
                   \o <<"') AS ">> \o item.alias
            ELSE expr_str \o <<" AS ">> \o item.alias
      [] OTHER -> <<"*">>

BinOrderItem(item) ==
    LET expr_str == DisplayExpr(item.expr)
        parts == Split(expr_str, ".") IN
    IF Contains(expr_str, ".") /\ Len(parts) = 2
    THEN <<"json_extract(">> \o parts[1] \o <<".properties, '$.">> \o parts[2]
           \o <<"') ASC">>
    ELSE expr_str \o <<" ASC">>

BinProcessNodeNamedUncounted(acc, e) ==
    LET node_counter == IF IsSome(e.variable) THEN acc.node_counter
                        ELSE acc.node_counter + 1
        alias == IF IsSome(e.variable) THEN e.variable[1]
                 ELSE GeneratedAlias("n", node_counter) IN
    [acc EXCEPT
       !.node_counter = node_counter,
       !.from_clauses = IF acc.from_clauses = <<>>
                        THEN <<<<"nodes ", alias>>>> ELSE @,
       !.join_clauses = IF acc.from_clauses = <<>> THEN @
                        ELSE Append(@, <<"JOIN nodes ", alias, " ON TRUE">>),
       !.where_conditions = IF e.labels = <<>> THEN @
                            ELSE Append(@, <<alias, ".label = '", e.labels[1], "'">>),
       !.prev_node_alias = Some(alias)]

BinProcessNode(acc, e) ==
    LET node_counter == acc.node_counter + 1
        alias == IF IsSome(e.variable) THEN e.variable[1]
                 ELSE GeneratedAlias("n", node_counter) IN
    [acc EXCEPT
       !.node_counter = node_counter,
       !.from_clauses = IF acc.from_clauses = <<>>
                        THEN <<<<"nodes ", alias>>>> ELSE @,
       !.join_clauses = IF acc.from_clauses = <<>> THEN @
                        ELSE Append(@, <<"JOIN nodes ", alias, " ON TRUE">>),
       !.where_conditions = IF e.labels = <<>> THEN @
                            ELSE Append(@, <<alias, ".label = '", e.labels[1], "'">>),
       !.prev_node_alias = Some(alias)]

BinProcessRelationship(acc, e) ==
    LET rel_counter == acc.rel_counter + 1
        rel_alias == IF IsSome(e.variable) THEN e.variable[1]
                     ELSE GeneratedAlias("r", rel_counter)
        counted == [acc EXCEPT !.rel_counter = rel_counter] IN
    IF acc.prev_node_alias = None THEN counted
    ELSE [counted EXCEPT
            !.join_clauses =
                Append(@, <<"JOIN relationships ", rel_alias, " ON ",
                            acc.prev_node_alias[1], ".id = ", rel_alias, ".from_id">>),
            !.where_conditions = IF e.types = <<>> THEN @
                                 ELSE Append(@, <<rel_alias, ".type = '", e.types[1], "'">>)]

RECURSIVE BinProcessElements(_, _)
BinProcessElements(acc, elements) ==
    IF elements = <<>> THEN acc
    ELSE BinProcessElements(IF Head(elements).kind = "Node"
                            THEN BinProcessNode(acc, Head(elements))
                            ELSE BinProcessRelationship(acc, Head(elements)),
                            Tail(elements))

RECURSIVE BinProcessPatterns(_, _)
BinProcessPatterns(acc, patterns) ==
    IF patterns = <<>> THEN acc
    ELSE BinProcessPatterns(
             BinProcessElements([acc EXCEPT !.prev_node_alias = None],
                                Head(patterns).elements),
             Tail(patterns))

BinTransformMatch(stmt) ==
    LET ret == stmt.return
        items == IF IsSome(ret)
                 THEN [i \in 1..Len(ret[1].items) |-> BinSelectItem(ret[1].items[i])]
                 ELSE <<>>
        walked == BinProcessPatterns(MatchStart, stmt.patterns)
        where_conditions == IF IsSome(stmt.where)
                            THEN Append(walked.where_conditions, DisplayExpr(stmt.where[1]))
                            ELSE walked.where_conditions IN
    SqlOk(<<"SELECT ">>
            \o (IF IsSome(ret) /\ ret[1].distinct THEN <<"DISTINCT ">> ELSE <<>>)
            \o (IF items = <<>> THEN <<"*">> ELSE Join(items, <<", ">>))
            \o <<" FROM ">>
            \o Join(walked.from_clauses, <<", ">>)
            \o (IF walked.join_clauses = <<>> THEN <<>>
                ELSE <<" ">> \o Join(walked.join_clauses, <<" ">>))
            \o (IF where_conditions = <<>> THEN <<>>
                ELSE <<" WHERE ">> \o Join(where_conditions, <<" AND ">>))
            \o (IF IsSome(ret) /\ ret[1].order_by # <<>>
                THEN <<" ORDER BY ">>
                       \o Join([i \in 1..Len(ret[1].order_by) |->
                                  BinOrderItem(ret[1].order_by[i])], <<", ">>)
                ELSE <<>>)
            \o (IF IsSome(ret) /\ IsSome(ret[1].limit)
                THEN <<" LIMIT ">> \o DisplayExpr(ret[1].limit[1]) ELSE <<>>)
            \o (IF IsSome(ret) /\ IsSome(ret[1].skip)
                THEN <<" OFFSET ">> \o DisplayExpr(ret[1].skip[1]) ELSE <<>>),
          [walked EXCEPT !.where_conditions = where_conditions])

BinCreateElement(e) ==
    IF e.kind = "Node"
    THEN <<"INSERT INTO nodes (label, properties) VALUES (">>
           \o (IF e.labels = <<>> THEN <<"NULL">> ELSE <<"'", e.labels[1], "'">>)
           \o <<", ", "'{}')", ";\n">>
    ELSE <<"INSERT INTO relationships (from_id, to_id, type, properties) VALUES (",
           "?, ?, ">>
           \o (IF e.types = <<>> THEN <<"NULL">> ELSE <<"'", e.types[1], "'">>)
           \o <<", ", "'{}')", ";\n">>

BinTransformCreate(stmt) ==
    LET elements == Flatten([i \in 1..Len(stmt.patterns) |-> stmt.patterns[i].elements]) IN
    SqlOk(TrimEndMatches(Flatten([i \in 1..Len(elements) |-> BinCreateElement(elements[i])]),
                         ";\n"),
          MatchStart)

bin_transform_cypher_to_sql_basic(stmt) ==
    CASE stmt.kind = "Match" -> BinTransformMatch(stmt)
      [] stmt.kind = "Create" -> BinTransformCreate(stmt)
      [] OTHER ->
            SqlOk(<<"-- Transformation not yet implemented for this Cypher statement type">>,
                  MatchStart)

(***************************************************************************)
(* CypherToSqlTransformer (src/transformer/cypher_to_sql.rs): the          *)
(* translation that takes a TransformConfig and builds SQL statement       *)
(* values.  transformer/mod.rs does not declare this module (mod.rs:20-22),*)
(* so transform_cypher_to_sql never calls it.                              *)
(***************************************************************************)
TableWithJoins(name, alias, joins) == [name |-> name, alias |-> alias, joins |-> joins]

Join_(name, alias) == [name |-> name, alias |-> alias, on |-> BooleanValue(TRUE)]

RECURSIVE Reduce(_, _, _)
Reduce(acc, exprs, op) ==
    IF exprs = <<>> THEN acc
    ELSE Reduce(BinaryOp(acc, op, Head(exprs)), Tail(exprs), op)

combine_conditions(conditions) ==
    IF conditions = <<>> THEN BooleanValue(TRUE)
    ELSE Reduce(Head(conditions), Tail(conditions), "AND")

combine_conditions_with_or(conditions) ==
    IF conditions = <<>> THEN BooleanValue(FALSE)
    ELSE Reduce(Head(conditions), Tail(conditions), "OR")

TransformStart == [from_tables |-> <<>>, joins |-> <<>>, where_conditions |-> <<>>]

process_node_for_match(cfg, acc, e) ==
    LET table_name == IF cfg.use_label_tables /\ e.labels # <<>>
                      THEN e.labels[1] ELSE cfg.node_table
        table_ref == IF IsSome(e.variable) THEN e.variable[1] ELSE cfg.node_table IN
    [acc EXCEPT
       !.from_tables = Append(@, TableWithJoins(table_name, e.variable, <<>>)),
       !.where_conditions =
           IF ~cfg.use_label_tables /\ e.labels # <<>>
           THEN @ \o [i \in 1..Len(e.labels) |->
                        BinaryOp(CompoundIdentifier(<<table_ref, "label">>), "=",
                                 SingleQuotedString(e.labels[i]))]
           ELSE @]

process_relationship_for_match(cfg, acc, e) ==
    LET table_ref == IF IsSome(e.variable) THEN e.variable[1]
                     ELSE cfg.relationship_table
        type_conditions ==
            [i \in 1..Len(e.types) |->
               BinaryOp(CompoundIdentifier(<<table_ref, "type">>), "=",
                        SingleQuotedString(e.types[i]))] IN
    [acc EXCEPT
       !.joins = Append(@, Join_(cfg.relationship_table, e.variable)),
       !.where_conditions =
           IF Len(type_conditions) = 1 THEN Append(@, type_conditions[1])
           ELSE IF Len(type_conditions) > 1
                THEN Append(@, combine_conditions_with_or(type_conditions))
           ELSE @]

RECURSIVE process_pattern_for_match(_, _, _)
process_pattern_for_match(cfg, acc, elements) ==
    IF elements = <<>> THEN acc
    ELSE process_pattern_for_match(
             cfg,
             IF Head(elements).kind = "Node"
             THEN process_node_for_match(cfg, acc, Head(elements))
             ELSE process_relationship_for_match(cfg, acc, Head(elements)),
             Tail(elements))

StatementsOk(stmts) == [ok |-> TRUE, val |-> stmts, err |-> ""]

StatementsErr(msg) == [ok |-> FALSE, val |-> <<>>, err |-> msg]

transform_match(cfg, stmt) ==
    LET walked == process_pattern_for_match(cfg, TransformStart,
                                            AllElements(stmt.patterns))
        where_conditions == IF IsSome(stmt.where)
                            THEN Append(walked.where_conditions, stmt.where[1])
                            ELSE walked.where_conditions
        ret == stmt.return
        from == IF walked.joins # <<>> /\ walked.from_tables # <<>>
                THEN [walked.from_tables EXCEPT
                        ![Len(walked.from_tables)].joins = walked.joins]
                ELSE walked.from_tables IN
    StatementsOk(<<[kind |-> "Query",
                    distinct |-> IsSome(ret) /\ ret[1].distinct,
                    projection |-> IF IsSome(ret) THEN ret[1].items ELSE <<Wildcard>>,
                    from |-> from,
                    selection |-> IF where_conditions = <<>> THEN None
                                  ELSE Some(combine_conditions(where_conditions)),
                    order_by |-> IF IsSome(ret) THEN ret[1].order_by ELSE <<>>,
                    limit |-> IF IsSome(ret) THEN ret[1].limit ELSE None,
                    offset |-> IF IsSome(ret) THEN ret[1].skip ELSE None]>>)

transform_create(cfg, stmt) ==
    LET nodes == SelectSeq(AllElements(stmt.patterns), LAMBDA e : e.kind = "Node") IN
    StatementsOk([i \in 1..Len(nodes) |->
                    [kind |-> "Insert",
                     table_name |-> IF cfg.use_label_tables /\ nodes[i].labels # <<>>
                                    THEN nodes[i].labels[1] ELSE cfg.node_table]])

transform_merge(cfg, stmt) == StatementsErr("MERGE transformation not yet implemented")

transform_delete(cfg, stmt) == StatementsErr("DELETE transformation not yet implemented")

transform(cfg, stmt) ==
    CASE stmt.kind = "Match" -> transform_match(cfg, stmt)
      [] stmt.kind = "Create" -> transform_create(cfg, stmt)
      [] stmt.kind = "Merge" -> transform_merge(cfg, stmt)
      [] stmt.kind = "Delete" -> transform_delete(cfg, stmt)

(***************************************************************************)
(* Specification SpecLen: a RelationshipLength value is rendered, the text *)
(* is tokenized, the tokens after the leading `*` are parsed, and the      *)
(* parsed value is rendered again.                                         *)
(***************************************************************************)
U64Opts == {None} \cup {Some(n) : n \in 0..MaxLengthBound}

RelationshipLengths ==
    {Exact(n) : n \in 0..MaxLengthBound}
      \cup {Range(a, b) : a \in U64Opts, b \in U64Opts}
      \cup {Variable}

NoResult == Err(0, "")

DefaultConfig ==
    [node_table |-> "nodes", relationship_table |-> "relationships",
     use_label_tables |-> TRUE]

InitLen ==
    /\ pc = "value"
    /\ value \in RelationshipLengths
    /\ text = <<>>
    /\ tokens = <<>>
    /\ parsed = NoResult
    /\ text2 = <<>>
    /\ reparsed = NoResult
    /\ text3 = <<>>
    /\ sql = NoResult
    /\ statements = NoResult
    /\ config = DefaultConfig
    /\ stdout = <<>>
    /\ stderr = <<>>
    /\ exit_status = None

LenDisplay ==
    /\ pc = "value"
    /\ text' = DisplayRelationshipLength(value)
    /\ pc' = "rendered"
    /\ UNCHANGED <<value, tokens, parsed, text2, reparsed, text3, sql, statements, config>>
    /\ UNCHANGED <<stdout, stderr, exit_status>>

LenTokenize ==
    /\ pc = "rendered"
    /\ tokens' = Tokenize(text)
    /\ pc' = "tokenized"
    /\ UNCHANGED <<value, text, parsed, text2, reparsed, text3, sql, statements, config>>
    /\ UNCHANGED <<stdout, stderr, exit_status>>

(* parse_cypher_relationship: `*` is consumed, then the length is parsed.  *)
LenParse ==
    /\ pc = "tokenized"
    /\ consume_token(tokens, 1, "Mul")
    /\ parsed' = parse_cypher_relationship_length(tokens, 2)
    /\ pc' = "parsed"
    /\ UNCHANGED <<value, text, tokens, text2, reparsed, text3, sql, statements, config>>
    /\ UNCHANGED <<stdout, stderr, exit_status>>

LenRedisplay ==
    /\ pc = "parsed"
    /\ parsed.ok
    /\ text2' = DisplayRelationshipLength(parsed.val)
    /\ pc' = "rerendered"
    /\ UNCHANGED <<value, text, tokens, parsed, reparsed, text3, sql, statements, config>>
    /\ UNCHANGED <<stdout, stderr, exit_status>>

NextLen == LenDisplay \/ LenTokenize \/ LenParse \/ LenRedisplay

SpecLen == InitLen /\ [][NextLen]_vars

(***************************************************************************)
(* Specification SpecRT: a pattern written in Cypher source syntax is      *)
(* tokenized and parsed by parse_cypher_pattern; the parsed Pattern is     *)
(* rendered by Display, the rendering is tokenized and parsed again, and   *)
(* the second Pattern is rendered.                                         *)
(***************************************************************************)
RtNodes ==
    {Node(None, <<>>, None), Node(Some("a"), <<>>, None),
     Node(Some("a"), <<"L">>, None), Node(None, <<"L", "M">>, None)}

RtDetails ==
    {[variable |-> None, types |-> <<>>, length |-> None],
     [variable |-> Some("r"), types |-> <<>>, length |-> None],
     [variable |-> Some("r"), types |-> <<"T">>, length |-> None],
     [variable |-> None, types |-> <<"T", "U">>, length |-> None],
     [variable |-> Some("r"), types |-> <<"T">>, length |-> Some(Exact(2))],
     [variable |-> None, types |-> <<>>, length |-> Some(Variable)],
     [variable |-> None, types |-> <<>>, length |-> Some(Range(Some(1), Some(3)))],
     [variable |-> None, types |-> <<>>, length |-> Some(Range(None, None))]}

RtRelationships ==
    {Relationship(d.variable, d.types, None, dir, d.length) :
        d \in RtDetails, dir \in RelationshipDirections}

(* A pattern of more than two nodes continues with a relationship of each *)
(* direction and one node.                                                 *)
RtMoreRelationships ==
    {Relationship(None, <<"T">>, None, dir, None) : dir \in RelationshipDirections}

RECURSIVE RtElementSeqs(_)
RtElementSeqs(nodes) ==
    IF nodes = 1 THEN {<<n>> : n \in RtNodes}
    ELSE IF nodes = 2
         THEN {es \o <<r, n>> : es \in RtElementSeqs(1), r \in RtRelationships,
                                 n \in RtNodes}
    ELSE {es \o <<r, Node(Some("b"), <<>>, None)>> :
            es \in RtElementSeqs(nodes - 1), r \in RtMoreRelationships}

RtPatterns ==
    UNION {{Pattern(es) : es \in RtElementSeqs(k)} : k \in 1..MaxPatternNodes}

(* Cypher source syntax of a pattern element: a node is written as Display  *)
(* renders it, a relationship as `<-[...]-`, `-[...]->`, `<-[...]->` or     *)
(* `-[...]-`.                                                              *)
SourceElement(e) ==
    IF e.kind = "Node" THEN DisplayPatternElement(e)
    ELSE (IF e.direction \in {"Left", "Both"} THEN <<"<">> ELSE <<>>)
           \o <<"-">>
           \o DisplayPatternElement([e EXCEPT !.direction = "None"])
           \o (IF e.direction \in {"Right", "Both"} THEN <<"-", ">">> ELSE <<"-">>)

SourcePattern(p) ==
    Flatten([i \in 1..Len(p.elements) |-> SourceElement(p.elements[i])])

InitRT ==
    /\ pc = "source"
    /\ value \in RtPatterns
    /\ text = SourcePattern(value)
    /\ tokens = <<>>
    /\ parsed = NoResult
    /\ text2 = <<>>
    /\ reparsed = NoResult
    /\ text3 = <<>>
    /\ sql = NoResult
    /\ statements = NoResult
    /\ config = DefaultConfig
    /\ stdout = <<>>
    /\ stderr = <<>>
    /\ exit_status = None

RtTokenize ==
    /\ pc = "source"
    /\ tokens' = Tokenize(text)
    /\ pc' = "tokenized"
    /\ UNCHANGED <<value, text, parsed, text2, reparsed, text3, sql, statements, config>>
    /\ UNCHANGED <<stdout, stderr, exit_status>>

RtParse ==
    /\ pc = "tokenized"
    /\ parsed' = parse_cypher_pattern(tokens, 1)
    /\ pc' = "parsed"
    /\ UNCHANGED <<value, text, tokens, text2, reparsed, text3, sql, statements, config>>
    /\ UNCHANGED <<stdout, stderr, exit_status>>

RtDisplay ==
    /\ pc = "parsed"
    /\ parsed.ok
    /\ text2' = DisplayPattern(parsed.val)
    /\ pc' = "rendered"
    /\ UNCHANGED <<value, text, tokens, parsed, reparsed, text3, sql, statements, config>>
    /\ UNCHANGED <<stdout, stderr, exit_status>>

RtRetokenize ==
    /\ pc = "rendered"
    /\ tokens' = Tokenize(text2)
    /\ pc' = "retokenized"
    /\ UNCHANGED <<value, text, parsed, text2, reparsed, text3, sql, statements, config>>
    /\ UNCHANGED <<stdout, stderr, exit_status>>

RtReparse ==
    /\ pc = "retokenized"
    /\ reparsed' = parse_cypher_pattern(tokens, 1)
    /\ pc' = "reparsed"
    /\ UNCHANGED <<value, text, tokens, parsed, text2, text3, sql, statements, config>>
    /\ UNCHANGED <<stdout, stderr, exit_status>>

RtRedisplay ==
    /\ pc = "reparsed"
    /\ reparsed.ok
    /\ text3' = DisplayPattern(reparsed.val)
    /\ pc' = "rerendered"
    /\ UNCHANGED <<value, text, tokens, parsed, text2, reparsed, sql, statements, config>>
    /\ UNCHANGED <<stdout, stderr, exit_status>>

NextRT ==
    RtTokenize \/ RtParse \/ RtDisplay \/ RtRetokenize \/ RtReparse \/ RtRedisplay

SpecRT == InitRT /\ [][NextRT]_vars

(***************************************************************************)
(* Specification Spec: the library pipeline of transform_cypher_to_sql.    *)
(* A query text is tokenized, parse_cypher_statement parses it, and the    *)
(* statement is translated, by transform_cypher_to_sql_basic and by a      *)
(* CypherToSqlTransformer built with a configuration.                      *)
(***************************************************************************)
StNodes ==
    {Node(Some("n"), <<"Person">>, None), Node(Some("m"), <<"User", "Admin">>, None),
     Node(Some("n"), <<>>, None), Node(None, <<>>, None)}

StRelationships ==
    {Relationship(Some("r"), <<"KNOWS">>, None, "Right", None),
     Relationship(None, <<"KNOWS", "LIKES">>, None, "Left", None),
     Relationship(None, <<>>, None, "None", None)}

(* A pattern of more than two nodes continues with an untyped relationship *)
(* and a labelled or an anonymous node.                                    *)
StMoreNodes == {Node(Some("k"), <<"Team">>, None), Node(None, <<>>, None)}

RECURSIVE StElementSeqs(_)
StElementSeqs(nodes) ==
    IF nodes = 1 THEN {<<n>> : n \in StNodes}
    ELSE IF nodes = 2
         THEN {es \o <<r, n>> : es \in StElementSeqs(1), r \in StRelationships,
                                 n \in StNodes}
    ELSE {es \o <<Relationship(None, <<>>, None, "None", None), n>> :
            es \in StElementSeqs(nodes - 1), n \in StMoreNodes}

StFirstPatterns ==
    UNION {{Pattern(es) : es \in StElementSeqs(k)} : k \in 1..MaxPatternNodes}

StNextPattern ==
    Pattern(<<Node(None, <<>>, None),
              Relationship(None, <<"LIKES">>, None, "Right", None),
              Node(Some("m"), <<"User">>, None)>>)

StPatternLists ==
    {<<p>> \o [i \in 1..k |-> StNextPattern] :
        p \in StFirstPatterns, k \in 0..(MaxPatterns - 1)}

StWheres ==
    {None, Some(BinaryOp(CompoundIdentifier(<<"n", "age">>), ">", NumberValue(<<"3", "0">>)))}

StReturns ==
    {None,
     Some(ReturnClause(FALSE, <<UnnamedExpr(CompoundIdentifier(<<"n", "name">>))>>,
                       <<>>, None, None)),
     Some(ReturnClause(FALSE, <<UnnamedExpr(CompoundIdentifier(<<"n", "id">>))>>,
                       <<>>, None, None)),
     Some(ReturnClause(FALSE, <<UnnamedExpr(CompoundIdentifier(<<"m", "id">>))>>,
                       <<>>, None, None)),
     Some(ReturnClause(FALSE, <<UnnamedExpr(CompoundIdentifier(<<"n", "name">>)),
                                UnnamedExpr(CompoundIdentifier(<<"m", "name">>))>>,
                       <<>>, None, None)),
     Some(ReturnClause(TRUE, <<Wildcard,
                               ExprWithAlias(CompoundIdentifier(<<"n", "id">>), "ident")>>,
                       <<OrderByExpr(CompoundIdentifier(<<"n", "name">>), None)>>,
                       Some(NumberValue(<<"5">>)), Some(NumberValue(<<"1", "0">>))))}

StSetClauses ==
    <<SetClause(SetTarget("Property", "n", Some("seen")), NumberValue(<<"1">>))>>

StStatements ==
    {Match(FALSE, ps, w, r) : ps \in StPatternLists, w \in StWheres, r \in StReturns}
      \cup {Match(TRUE, ps, None, None) : ps \in StPatternLists}
      \cup {Create(ps) : ps \in StPatternLists}
      \cup {Merge(ps, oc, None) : ps \in StPatternLists, oc \in {None, Some(StSetClauses)}}
      \cup {Delete(d, <<Identifier("n")>>, w) : d \in BOOLEAN, w \in StWheres}

SourcePatterns(patterns) ==
    Join([i \in 1..Len(patterns) |-> SourcePattern(patterns[i])], <<",", " ">>)

SourceWhere(where) ==
    IF IsSome(where) THEN <<" ", "WHERE", " ">> \o DisplayExpr(where[1]) ELSE <<>>

SourceSetClause(c) ==
    <<c.target.variable>>
      \o (CASE c.target.kind = "Property" -> <<".">> \o c.target.name
            [] c.target.kind = "Label" -> <<":">> \o c.target.name
            [] OTHER -> <<>>)
      \o <<" ", "=", " ">> \o DisplayExpr(c.value)

(* The query text of a statement, in Cypher source syntax.                 *)
SourceStatement(stmt) ==
    CASE stmt.kind = "Match" ->
            (IF stmt.optional THEN <<"OPTIONAL", " ">> ELSE <<>>)
              \o <<"MATCH", " ">> \o SourcePatterns(stmt.patterns)
              \o SourceWhere(stmt.where)
              \o (IF IsSome(stmt.return)
                  THEN <<" ">> \o DisplayReturnClause(stmt.return[1]) ELSE <<>>)
      [] stmt.kind = "Create" -> <<"CREATE", " ">> \o SourcePatterns(stmt.patterns)
      [] stmt.kind = "Merge" ->
            <<"MERGE", " ">> \o SourcePatterns(stmt.patterns)
              \o (IF IsSome(stmt.on_create)
                  THEN <<" ", "ON", " ", "CREATE", " ", "SET", " ">>
                         \o Join([i \in 1..Len(stmt.on_create[1]) |->
                                    SourceSetClause(stmt.on_create[1][i])], <<",", " ">>)
                  ELSE <<>>)
      [] stmt.kind = "Delete" ->
            (IF stmt.detach THEN <<"DETACH", " ">> ELSE <<>>)
              \o <<"DELETE", " ">>
              \o Join([i \in 1..Len(stmt.what) |-> DisplayExpr(stmt.what[i])], <<",", " ">>)
              \o SourceWhere(stmt.where)

(* The schema configuration the caller holds: TransformConfig::default()   *)
(* or one with use_label_tables switched off.                              *)
StConfigs == {[DefaultConfig EXCEPT !.use_label_tables = b] : b \in BOOLEAN}

Init ==
    /\ pc = "source"
    /\ value \in StStatements
    /\ text = SourceStatement(value)
    /\ tokens = <<>>
    /\ parsed = NoResult
    /\ text2 = <<>>
    /\ reparsed = NoResult
    /\ text3 = <<>>
    /\ sql = NoResult
    /\ statements = NoResult
    /\ config \in StConfigs
    /\ stdout = <<>>
    /\ stderr = <<>>
    /\ exit_status = None

(* Tokenizer::new(&dialect, cypher_query).tokenize()                       *)
TokenizeQuery ==
    /\ pc = "source"
    /\ tokens' = Tokenize(text)
    /\ pc' = "tokenized"
    /\ UNCHANGED <<value, text, parsed, text2, reparsed, text3, sql, statements, config>>
    /\ UNCHANGED <<stdout, stderr, exit_status>>

(* parser.parse_cypher_statement()                                         *)
ParseStatement ==
    /\ pc = "tokenized"
    /\ parsed' = parse_cypher_statement(tokens, 1)
    /\ pc' = IF parsed'.ok THEN "parsed" ELSE "parse_error"
    /\ UNCHANGED <<value, text, tokens, text2, reparsed, text3, sql, statements, config>>
    /\ UNCHANGED <<stdout, stderr, exit_status>>

(* transform_cypher_to_sql_basic(&cypher_stmt): the entry point takes no   *)
(* configuration.                                                          *)
TransformBasic ==
    /\ pc = "parsed"
    /\ sql' = transform_cypher_to_sql_basic(parsed.val)
    /\ pc' = "translated"
    /\ UNCHANGED <<value, text, tokens, parsed, text2, reparsed, text3, statements, config>>
    /\ UNCHANGED <<stdout, stderr, exit_status>>

(* CypherToSqlTransformer::with_config(config).transform(&cypher_stmt)     *)
Transform ==
    /\ pc = "parsed"
    /\ statements' = transform(config, parsed.val)
    /\ pc' = "transformed"
    /\ UNCHANGED <<value, text, tokens, parsed, text2, reparsed, text3, sql, config>>
    /\ UNCHANGED <<stdout, stderr, exit_status>>

Next == TokenizeQuery \/ ParseStatement \/ TransformBasic \/ Transform

Spec == Init /\ [][Next]_vars

(***************************************************************************)
(* Specification SpecCli: the command-line program                         *)
(* (src/bin/cypher_transformer.rs).  run() takes the query from the first  *)
(* argument or, without one, from standard input (trimmed); an empty query *)
(* is an error; the query is tokenized, parsed by parse_cypher_statement   *)
(* and translated by the binary's transform_cypher_to_sql_basic, which is  *)
(* the same text as the library's; the SQL is printed.  main() exits with  *)
(* 0 when run() returned Ok and prints `Error: <err>` and exits with 1     *)
(* when it returned Err.                                                   *)
(*                                                                         *)
(* An input is [family, raw, detail]: the raw query text, the family of    *)
(* queries it was drawn from, and what the family's queries were built     *)
(* from.                                                                   *)
(***************************************************************************)
MaxOnBlocks == 3

Query(family, chunks, detail) ==
    [family |-> family, raw |-> Join(chunks, <<" ">>), detail |-> detail]

NodeN == <<"(", "n", ")">>

CliEmptyQueries == {Query("empty", <<>>, <<>>), Query("empty", <<<<" ">>>>, <<>>)}

(* Every leading keyword of the grammar, and leading tokens that are none. *)
CliDispatchQueries ==
    {Query("dispatch", c, <<>>) : c \in
        {<<<<"MATCH">>, NodeN>>,
         <<<<"OPTIONAL">>, <<"MATCH">>, NodeN>>,
         <<<<"CREATE">>, NodeN>>,
         <<<<"MERGE">>, NodeN>>,
         <<<<"DELETE">>, <<"n">>>>,
         <<<<"DETACH">>, <<"DELETE">>, <<"n">>>>,
         <<<<"OPTIONAL">>, NodeN>>,
         <<<<"DETACH">>, <<"n">>>>,
         <<<<"RETURN">>, <<"n">>>>,
         <<<<"SET">>, <<"n">>>>,
         <<<<"WHERE">>, <<"n">>>>,
         <<NodeN>>,
         <<<<"n">>>>,
         <<<<"1">>>>,
         <<<<"*">>>>}}

(* Node patterns whose tokens are not closed by `)`; detail.at is the index *)
(* of the token that stands where the `)` should.                          *)
CliUnclosedQueries ==
    {Query("unclosed", <<<<"MATCH">>, <<"(", "n", ":", "Person">>, <<"RETURN">>, <<"n">>>>,
           [at |-> 6]),
     Query("unclosed", <<<<"MATCH">>, <<"(", "n">>, <<"RETURN">>, <<"n">>>>, [at |-> 4]),
     Query("unclosed", <<<<"MATCH">>, <<"(", "n", ":", "Person">>>>, [at |-> 6]),
     Query("unclosed", <<<<"MATCH">>, <<"(">>>>, [at |-> 3]),
     Query("unclosed", <<<<"MATCH">>, <<"(", "n">>, <<"m", ")">>>>, [at |-> 4]),
     Query("unclosed", <<<<"CREATE">>, <<"(", "n", ":", "Person", ":", "Admin">>>>,
           [at |-> 8]),
     Query("unclosed", <<<<"MERGE">>, <<"(", ":", "Person">>, <<"ON">>>>, [at |-> 5]),
     Query("unclosed",
           <<<<"MATCH">>, <<"(", "n", ")", "-", "[", "r", "]", "-", ">", "(", "m">>,
             <<"RETURN">>, <<"n">>>>,
           [at |-> 12]),
     Query("unclosed",
           <<<<"MATCH">>, NodeN \o <<",">>, <<"(", "m", ":", "User">>, <<"WHERE">>, <<"n">>>>,
           [at |-> 10])}

(* Property maps `{k: e, ...}` on a node and in a relationship body, closed *)
(* by one `}` (detail.braces = 1) or by two.                               *)
PropertyKeyLists == {<<"name">>, <<"k", "j">>}

MapText(keys, braces) ==
    <<"{">>
      \o Join([i \in 1..Len(keys) |-> <<keys[i], ":", " ">> \o Digits(i)], <<",", " ">>)
      \o [i \in 1..braces |-> "}"]

MapPairs(keys) == MapFunction(keys, [i \in 1..Len(keys) |-> NumberValue(Digits(i))])

CliPropertyQueries ==
    {Query("node_properties",
           <<<<"MATCH">>, <<"(", "n", ":", "Person">>, MapText(ks, b) \o <<")">>,
             <<"RETURN">>, <<"n">>>>,
           [keys |-> ks, braces |-> b]) : ks \in PropertyKeyLists, b \in 1..2}
      \cup
    {Query("relationship_properties",
           <<<<"MATCH">>, <<"(", "a", ")", "-", "[", "r", ":", "T">>,
             MapText(ks, b) \o <<"]", "-", ">", "(", "b", ")">>>>,
           [keys |-> ks, braces |-> b]) : ks \in PropertyKeyLists, b \in 1..2}

(* `(:Label)` and `(Label)`.                                               *)
NodeLabelText(leading_colon) ==
    <<"(">> \o (IF leading_colon THEN <<":">> ELSE <<>>) \o <<"Label", ")">>

CliLabelQueries ==
    {Query("label_form", <<<<k>>, NodeLabelText(b)>>, [leading_colon |-> b]) :
        k \in {"MATCH", "CREATE"}, b \in BOOLEAN}

(* MERGE (n) followed by ON CREATE SET / ON MATCH SET blocks.              *)
OnBlocks == {"C1", "C2", "M1", "M2"}

OnBlockCreates(b) == b \in {"C1", "C2"}

OnBlockClauses(b) ==
    CASE b = "C1" -> <<SetClause(SetTarget("Property", "n", Some("a")), NumberValue(<<"1">>))>>
      [] b = "C2" -> <<SetClause(SetTarget("Variable", "n", None), NumberValue(<<"2">>))>>
      [] b = "M1" -> <<SetClause(SetTarget("Property", "n", Some("a")), NumberValue(<<"1">>))>>
      [] b = "M2" -> <<SetClause(SetTarget("Label", "n", Some("Seen")), NumberValue(<<"3">>)),
                       SetClause(SetTarget("Property", "n", Some("d")), NumberValue(<<"4">>))>>

OnBlockText(b) ==
    <<"ON", " ", IF OnBlockCreates(b) THEN "CREATE" ELSE "MATCH", " ", "SET", " ">>
      \o Join([i \in 1..Len(OnBlockClauses(b)) |-> SourceSetClause(OnBlockClauses(b)[i])],
              <<",", " ">>)

OnBlockSeqs == UNION {[1..k -> OnBlocks] : k \in 0..MaxOnBlocks}

CliMergeQueries ==
    {Query("merge_on",
           <<<<"MERGE">>, NodeN>> \o [i \in 1..Len(bs) |-> OnBlockText(bs[i])],
           bs) : bs \in OnBlockSeqs}

(* ON followed by something other than CREATE or MATCH.                    *)
CliMergeBadOnQueries ==
    {Query("merge_bad_on", <<<<"MERGE">>, NodeN>> \o c, <<>>) : c \in
        {<<<<"ON">>>>,
         <<<<"ON">>, <<"SET">>, <<"n">>, <<"=">>, <<"1">>>>,
         <<<<"ON">>, <<"DELETE">>, <<"SET">>, <<"n">>, <<"=">>, <<"1">>>>,
         <<OnBlockText("C1"), <<"ON">>, <<"n">>>>,
         <<OnBlockText("M1"), <<"ON">>, <<"RETURN">>>>}}

(* RETURN n with SKIP 1 and LIMIT 2, in either order, or with one of them. *)
SkipLimitOrders == {"skip_limit", "limit_skip", "skip", "limit"}

SkipLimitText(order) ==
    CASE order = "skip_limit" -> <<<<"SKIP">>, <<"1">>, <<"LIMIT">>, <<"2">>>>
      [] order = "limit_skip" -> <<<<"LIMIT">>, <<"2">>, <<"SKIP">>, <<"1">>>>
      [] order = "skip" -> <<<<"SKIP">>, <<"1">>>>
      [] order = "limit" -> <<<<"LIMIT">>, <<"2">>>>

CliSkipLimitQueries ==
    {Query("skip_limit",
           <<<<k>>, <<"MATCH">>, NodeN, <<"RETURN">>>> \o items \o SkipLimitText(o),
           [order |-> o]) :
        k \in {"OPTIONAL"}, o \in SkipLimitOrders,
        items \in {<<<<"n">>>>, <<<<"n", ".", "name">>, <<"AS">>, <<"x">>>>}}

CliQueries ==
    CliEmptyQueries \cup CliDispatchQueries \cup CliUnclosedQueries
      \cup CliPropertyQueries \cup CliLabelQueries \cup CliMergeQueries
      \cup CliMergeBadOnQueries \cup CliSkipLimitQueries

(* str::trim of the pieces: leading and trailing whitespace removed.       *)
RECURSIVE TrimStart(_)
TrimStart(s) == IF s # <<>> /\ IsSpace(Head(s)) THEN TrimStart(Tail(s)) ELSE s

RECURSIVE TrimEnd(_)
TrimEnd(s) ==
    IF s # <<>> /\ IsSpace(s[Len(s)]) THEN TrimEnd(SubSeq(s, 1, Len(s) - 1)) ELSE s

Trim(s) == TrimEnd(TrimStart(s))

InitCli ==
    /\ pc = "start"
    /\ \E q \in CliQueries, from_args \in BOOLEAN :
          value = [query |-> q, from_args |-> from_args]
    /\ text = <<>>
    /\ tokens = <<>>
    /\ parsed = NoResult
    /\ text2 = <<>>
    /\ reparsed = NoResult
    /\ text3 = <<>>
    /\ sql = NoResult
    /\ statements = NoResult
    /\ config = DefaultConfig
    /\ stdout = <<>>
    /\ stderr = <<>>
    /\ exit_status = None

(* main() on Err(err): eprintln!("Error: {}", err); process::exit(1)       *)
ExitWithError(err) ==
    /\ stderr' = <<"Error: ">> \o err
    /\ exit_status' = Some(1)
    /\ pc' = "exited"

(* The query from args[1], or from standard input, trimmed; an empty query *)
(* is the error "No Cypher query provided".                                *)
CliReadQuery ==
    /\ pc = "start"
    /\ text' = IF value.from_args THEN value.query.raw ELSE Trim(value.query.raw)
    /\ IF text' = <<>>
       THEN ExitWithError(<<"No Cypher query provided">>)
       ELSE pc' = "query" /\ UNCHANGED <<stderr, exit_status>>
    /\ UNCHANGED <<value, tokens, parsed, text2, reparsed, text3, sql, statements, config,
                   stdout>>

CliTokenize ==
    /\ pc = "query"
    /\ tokens' = Tokenize(text)
    /\ pc' = "tokenized"
    /\ UNCHANGED <<value, text, parsed, text2, reparsed, text3, sql, statements, config>>
    /\ UNCHANGED <<stdout, stderr, exit_status>>

(* parser.parse_cypher_statement(); an Err(e) becomes the error            *)
(* "Failed to parse Cypher query: {e}".                                    *)
CliParse ==
    /\ pc = "tokenized"
    /\ parsed' = parse_cypher_statement(tokens, 1)
    /\ IF parsed'.ok
       THEN pc' = "parsed" /\ UNCHANGED <<stderr, exit_status>>
       ELSE ExitWithError(<<"Failed to parse Cypher query: ", parsed'.err>>)
    /\ UNCHANGED <<value, text, tokens, text2, reparsed, text3, sql, statements, config,
                   stdout>>

(* transform_cypher_to_sql_basic(&cypher_stmt)?; println!("{}", sql_query); *)
(* Ok(()), and main() exits with 0.                                        *)
CliTransform ==
    /\ pc = "parsed"
    /\ sql' = bin_transform_cypher_to_sql_basic(parsed.val)
    /\ IF sql'.ok
       THEN /\ stdout' = sql'.val
            /\ exit_status' = Some(0)
            /\ pc' = "exited"
            /\ UNCHANGED stderr
       ELSE ExitWithError(<<sql'.err>>) /\ UNCHANGED stdout
    /\ UNCHANGED <<value, text, tokens, parsed, text2, reparsed, text3, statements, config>>

NextCli == CliReadQuery \/ CliTokenize \/ CliParse \/ CliTransform

SpecCli == InitCli /\ [][NextCli]_vars

(***************************************************************************)
(* Specification SpecAst: a Pattern built directly.  Pattern is a public   *)
(* struct with the public field `elements` (src/ast/cypher.rs), so a       *)
(* Pattern is built by the struct literal `Pattern { elements }` from any  *)
(* vector of PatternElement, and rendered by its Display.                  *)
(***************************************************************************)
MaxAstElements == 3

AstElements ==
    {Node(Some("n"), <<"Person">>, None),
     Node(None, <<>>, None),
     Relationship(Some("r"), <<"T">>, None, "Right", None),
     Relationship(None, <<>>, None, "None", None)}

AstElementSeqs == UNION {[1..k -> AstElements] : k \in 0..MaxAstElements}

InitAst ==
    /\ pc = "elements"
    /\ value \in AstElementSeqs
    /\ text = <<>>
    /\ tokens = <<>>
    /\ parsed = NoResult
    /\ text2 = <<>>
    /\ reparsed = NoResult
    /\ text3 = <<>>
    /\ sql = NoResult
    /\ statements = NoResult
    /\ config = DefaultConfig
    /\ stdout = <<>>
    /\ stderr = <<>>
    /\ exit_status = None

(* Pattern { elements }: the vector is moved into the struct as it is.     *)
AstConstruct ==
    /\ pc = "elements"
    /\ value' = Pattern(value)
    /\ pc' = "constructed"
    /\ UNCHANGED <<text, tokens, parsed, text2, reparsed, text3, sql, statements, config>>
    /\ UNCHANGED <<stdout, stderr, exit_status>>

(* format!("{}", pattern)                                                  *)
AstDisplay ==
    /\ pc = "constructed"
    /\ text' = DisplayPattern(value)
    /\ pc' = "rendered"
    /\ UNCHANGED <<value, tokens, parsed, text2, reparsed, text3, sql, statements, config>>
    /\ UNCHANGED <<stdout, stderr, exit_status>>

NextAst == AstConstruct \/ AstDisplay

SpecAst == InitAst /\ [][NextAst]_vars

(***************************************************************************)
(* Specification SpecPattern: parse_cypher_pattern on token sequences made *)
(* of whole nodes and whole relationships put together in any order, with  *)
(* stray words and commas among them.                                      *)
(***************************************************************************)
MaxChunks == 5

ChunkKinds == {"node", "rel_plain", "rel_right", "rel_left", "word", "comma"}

RelationshipChunks == {"rel_plain", "rel_right", "rel_left"}

ChunkTokens(c) ==
    CASE c = "node" -> <<Tok("LParen"), Word("a"), Tok("RParen")>>
      [] c = "rel_plain" -> <<Tok("Minus"), Tok("Minus")>>
      [] c = "rel_right" ->
            <<Tok("Minus"), Tok("LBracket"), Word("r"), Tok("RBracket"), Tok("Arrow")>>
      [] c = "rel_left" -> <<Tok("Lt"), Tok("Minus"), Tok("Minus")>>
      [] c = "word" -> <<Word("a")>>
      [] c = "comma" -> <<Tok("Comma")>>

ChunkSeqs == UNION {[1..k -> ChunkKinds] : k \in 0..MaxChunks}

InitPattern ==
    /\ pc = "tokens"
    /\ value \in ChunkSeqs
    /\ text = <<>>
    /\ tokens = Flatten([i \in 1..Len(value) |-> ChunkTokens(value[i])])
    /\ parsed = NoResult
    /\ text2 = <<>>
    /\ reparsed = NoResult
    /\ text3 = <<>>
    /\ sql = NoResult
    /\ statements = NoResult
    /\ config = DefaultConfig
    /\ stdout = <<>>
    /\ stderr = <<>>
    /\ exit_status = None

PatternParse ==
    /\ pc = "tokens"
    /\ parsed' = parse_cypher_pattern(tokens, 1)
    /\ pc' = "parsed"
    /\ UNCHANGED <<value, text, tokens, text2, reparsed, text3, sql, statements, config>>
    /\ UNCHANGED <<stdout, stderr, exit_status>>

NextPattern == PatternParse

SpecPattern == InitPattern /\ [][NextPattern]_vars

(***************************************************************************)
(* Specification SpecLengthTokens: parse_cypher_relationship_length on the *)
(* tokens that follow a `*`: integers, a number token that is out of the   *)
(* range of u64, a fractional number token, `.` and `]`, in any order.     *)
(***************************************************************************)
MaxLengthTokens == 4

LengthSymbols == {"3", "7", "big", "frac", ".", "]"}

LengthToken(x) ==
    CASE x = "3" -> Number(<<"3">>)
      [] x = "7" -> Number(<<"0", "7">>)
      [] x = "big" -> Number([U64MaxDigits EXCEPT ![Len(U64MaxDigits)] = "6"])
      [] x = "frac" -> Number(<<"1", ".", "5">>)
      [] x = "." -> Tok("Period")
      [] x = "]" -> Tok("RBracket")

LengthSymbolSeqs == UNION {[1..k -> LengthSymbols] : k \in 0..MaxLengthTokens}

InitLengthTokens ==
    /\ pc = "tokens"
    /\ value \in LengthSymbolSeqs
    /\ text = <<>>
    /\ tokens = [i \in 1..Len(value) |-> LengthToken(value[i])]
    /\ parsed = NoResult
    /\ text2 = <<>>
    /\ reparsed = NoResult
    /\ text3 = <<>>
    /\ sql = NoResult
    /\ statements = NoResult
    /\ config = DefaultConfig
    /\ stdout = <<>>
    /\ stderr = <<>>
    /\ exit_status = None

LengthTokensParse ==
    /\ pc = "tokens"
    /\ parsed' = parse_cypher_relationship_length(tokens, 1)
    /\ pc' = "parsed"
    /\ UNCHANGED <<value, text, tokens, text2, reparsed, text3, sql, statements, config>>
    /\ UNCHANGED <<stdout, stderr, exit_status>>

NextLengthTokens == LengthTokensParse

SpecLengthTokens == InitLengthTokens /\ [][NextLengthTokens]_vars

(***************************************************************************)
(* Specification SpecTranslate: a parsed statement is translated by the    *)
(* library's transform_cypher_to_sql_basic and by the copy of it in the    *)
(* command-line program.  Both functions are private and only ever see     *)
(* what parse_cypher_statement returns, so every pattern here alternates   *)
(* nodes and relationships and a RETURN clause has at most one ORDER BY    *)
(* key.                                                                    *)
(***************************************************************************)
TrFirstNodes ==
    {Node(Some("a"), <<>>, None), Node(Some("a"), <<"Person">>, None),
     Node(None, <<"Person", "Admin">>, None), Node(Some("n2"), <<>>, None),
     Node(None, <<>>, None)}

TrNextNodes ==
    {Node(Some("b"), <<>>, None), Node(Some("b"), <<"User", "Admin">>, None),
     Node(None, <<"User">>, None), Node(Some("r1"), <<>>, None),
     Node(None, <<>>, None)}

TrRelationships ==
    {Relationship(None, <<>>, None, d, None) : d \in RelationshipDirections}
      \cup {Relationship(Some("r"), <<"KNOWS">>, None, d, None) : d \in {"Right", "Both"}}
      \cup {Relationship(None, <<"KNOWS", "LIKES">>, None, "Left", None),
            Relationship(Some("r"), <<"KNOWS", "LIKES", "OWNS">>, None, "None", None)}

(* A pattern of more than two nodes continues with a typed relationship    *)
(* and a named or an anonymous node.                                       *)
TrMoreNodes == {Node(Some("c"), <<"Team">>, None), Node(None, <<>>, None)}

RECURSIVE TrElementSeqs(_)
TrElementSeqs(nodes) ==
    IF nodes = 1 THEN {<<n>> : n \in TrFirstNodes}
    ELSE IF nodes = 2
         THEN {es \o <<r, n>> : es \in TrElementSeqs(1), r \in TrRelationships,
                                 n \in TrNextNodes}
    ELSE {es \o <<Relationship(None, <<"IN">>, None, "Right", None), n>> :
            es \in TrElementSeqs(nodes - 1), n \in TrMoreNodes}

TrFirstPatterns ==
    UNION {{Pattern(es) : es \in TrElementSeqs(k)} : k \in 1..MaxPatternNodes}

(* The patterns after the first: anonymous elements, so that their aliases *)
(* show how the counters run on.                                           *)
TrNextPattern ==
    Pattern(<<Node(None, <<>>, None),
              Relationship(None, <<"LIKES">>, None, "Left", None),
              Node(Some("m"), <<"User">>, None)>>)

TrPatternLists ==
    {<<p>> \o [i \in 1..k |-> TrNextPattern] :
        p \in TrFirstPatterns, k \in 0..(MaxPatterns - 1)}

TrComparisons ==
    [age |-> BinaryOp(CompoundIdentifier(<<"a", "age">>), ">", NumberValue(<<"3", "0">>)),
     vip |-> BinaryOp(CompoundIdentifier(<<"a", "vip">>), "=", NumberValue(<<"1">>))]

TrWheres ==
    {None, Some(TrComparisons.age),
     Some(BinaryOp(TrComparisons.age, "AND", TrComparisons.vip)),
     Some(BinaryOp(TrComparisons.age, "OR", TrComparisons.vip))}

TrExprs ==
    {CompoundIdentifier(<<"a", "name">>), CompoundIdentifier(<<"a", "b", "c">>),
     Identifier("a"), NumberValue(<<"7">>), NumberValue(<<"1", ".", "5">>)}

TrItems ==
    {UnnamedExpr(e) : e \in TrExprs} \cup {ExprWithAlias(e, "x") : e \in TrExprs}
      \cup {Wildcard}

TrOrderBys ==
    {<<>>}
      \cup {<<OrderByExpr(e, asc)>> :
              e \in {CompoundIdentifier(<<"a", "name">>), Identifier("a"),
                     NumberValue(<<"1", ".", "5">>)},
              asc \in {None, Some(TRUE), Some(FALSE)}}

TrReturns ==
    {ReturnClause(d, <<i>>, <<>>, None, None) : d \in BOOLEAN, i \in TrItems}
      \cup {ReturnClause(FALSE, <<i, Wildcard, UnnamedExpr(CompoundIdentifier(<<"b", "id">>))>>,
                         <<>>, None, None) : i \in TrItems}
      \cup {ReturnClause(d, <<UnnamedExpr(Identifier("a"))>>, o, l, s) :
              d \in BOOLEAN, o \in TrOrderBys,
              l \in {None, Some(NumberValue(<<"5">>))},
              s \in {None, Some(NumberValue(<<"2">>))}}

TrReturnPatterns ==
    <<Pattern(<<Node(Some("a"), <<"Person">>, None),
                Relationship(None, <<"KNOWS">>, None, "Right", None),
                Node(Some("b"), <<>>, None)>>)>>

TrStatements ==
    {Match(o, ps, w, None) : o \in BOOLEAN, ps \in TrPatternLists, w \in TrWheres}
      \cup {Match(FALSE, TrReturnPatterns, w, Some(r)) : w \in TrWheres, r \in TrReturns}
      \cup {Create(ps) : ps \in TrPatternLists}
      \cup {Merge(TrReturnPatterns, oc, None) : oc \in {None, Some(StSetClauses)}}
      \cup {Delete(d, <<Identifier("a")>>, w) : d \in BOOLEAN, w \in TrWheres}

InitTranslate ==
    /\ pc = "statement"
    /\ value \in TrStatements
    /\ text = <<>>
    /\ tokens = <<>>
    /\ parsed = Ok(0, value)
    /\ text2 = <<>>
    /\ reparsed = NoResult
    /\ text3 = <<>>
    /\ sql = NoResult
    /\ statements = NoResult
    /\ config = DefaultConfig
    /\ stdout = <<>>
    /\ stderr = <<>>
    /\ exit_status = None

(* transform_cypher_to_sql_basic(&cypher_stmt) in transform_cypher_to_sql  *)
TranslateLibrary ==
    /\ pc = "statement"
    /\ sql' = transform_cypher_to_sql_basic(parsed.val)
    /\ pc' = "library"
    /\ UNCHANGED <<value, text, tokens, parsed, text2, reparsed, text3, statements, config>>
    /\ UNCHANGED <<stdout, stderr, exit_status>>

(* let sql_query = transform_cypher_to_sql_basic(&cypher_stmt)?;           *)
(* println!("{}", sql_query); in run() of the command-line program         *)
TranslateBinary ==
    /\ pc = "library"
    /\ stdout' = bin_transform_cypher_to_sql_basic(parsed.val).val
    /\ pc' = "binary"
    /\ UNCHANGED <<value, text, tokens, parsed, text2, reparsed, text3, sql, statements,
                   config>>
    /\ UNCHANGED <<stderr, exit_status>>

NextTranslate == TranslateLibrary \/ TranslateBinary

SpecTranslate == InitTranslate /\ [][NextTranslate]_vars

(***************************************************************************)
(* The parser of src/parser/cypher.rs as a machine of steps.  tokens is    *)
(* the token vector, parsed.pos the parser's index, value the stack of the *)
(* functions entered and not yet left, pc the place in the code.  One      *)
(* action is one iteration of a loop or the code between two loops; the    *)
(* expression, SET and DELETE parsers of sqlparser are single steps.       *)
(***************************************************************************)
StepBaseQueries ==
    {<<"MATCH", " ", "(", "a", ":", "Person", ":", "Admin", " ", "{", "name", ":", " ", "1",
       ",", " ", "k", ":", " ", "2", "}", "}", ")", "-", "[", "r", ":", "KNOWS", "|", "LIKES",
       ":", "OWNS", "*", "1", ".", ".", "3", " ", "{", "w", ":", " ", "1", "}", "}", "]", "-",
       ">", "(", "b", ")", "<", "-", "[", ":", "T", "]", "-", "(", "c", ")", ",", " ", "(",
       "d", ")", "-", "-", "(", "e", ")", " ", "WHERE", " ", "a", " ", "RETURN", " ",
       "DISTINCT", " ", "a", ",", " ", "b", " ", "ORDER", " ", "BY", " ", "a", " ", "SKIP",
       " ", "1", " ", "LIMIT", " ", "2">>,
     <<"OPTIONAL", " ", "MATCH", " ", "(", "a", ")", "<", "-", "[", "*", "]", "-", "(", "b",
       ")", "-", "[", "*", "2", "]", "-", ">", "(", "c", " ", "{", "}", "}", ")", " ",
       "RETURN", " ", "a", " ", "ORDER", " ", "a">>,
     <<"CREATE", " ", "(", "a", ")", "-", "[", ":", "T", "]", "-", ">", "(", "b", ")", ",",
       " ", "(", "c", ":", "C", ")">>,
     <<"MERGE", " ", "(", "a", ")", "-", "[", "r", "]", "-", "(", "b", ")", " ", "ON", " ",
       "CREATE", " ", "SET", " ", "a", ".", "x", " ", "=", " ", "1", ",", " ", "b", " ", "=",
       " ", "2", " ", "ON", " ", "MATCH", " ", "SET", " ", "a", " ", "=", " ", "2", " ", "ON",
       " ", "CREATE", " ", "SET", " ", "a", " ", "=", " ", "3">>,
     <<"DETACH", " ", "DELETE", " ", "a", ",", " ", "b", " ", "WHERE", " ", "a">>,
     <<"DELETE", " ", "a">>,
     <<"MATCH", " ", "(", "a", ")", "-", "(", "b", ")">>,
     <<"MATCH", " ", "(", "a", ")", "<", "(", "b", ")">>,
     <<"MATCH", " ", "(", "a", ")", "-", "[", "r", " ", "KNOWS", "]", "-", "(", "b", ")">>,
     <<"MATCH", " ", "(", "a", ")", "-", "[", "r", ":", "KNOWS", "|", "]", "-", "(", "b",
       ")">>,
     <<"MATCH", " ", "(", "a", ")", "-", "[", "*", "x", "]", "-", "(", "b", ")">>,
     <<"MATCH", " ", "(", "a", " ", "{", "k", " ", "1", "}", ")">>,
     <<"MATCH", " ", "(", "a", " ", "{", "k", ":", " ", "1", "}", ")", "-", "[", "r", "]",
       "-", "(", "b", ")">>,
     <<"MATCH", " ", "(", "a", " ", "{", "k", ":", " ", "1", " ", "j", ":", " ", "2", "}",
       ")">>,
     <<"MATCH", " ", "(", "a", ")", "-", "[", "r", "]", "-", ">", "b">>,
     <<"MATCH", " ", "(", "a", ")", ",", " ", "b">>,
     <<"MERGE", " ", "(", "a", ")", " ", "ON", " ", "DELETE", " ", "SET", " ", "a", " ", "=",
       " ", "1">>,
     <<"MERGE", " ", "(", "a", ")", " ", "ON", " ", "MATCH", " ", "a", " ", "=", " ", "1">>,
     <<"RETURN", " ", "a">>}

(* Every query above cut after any number of its pieces.                   *)
StepQueries == UNION {{SubSeq(q, 1, k) : k \in 0..Len(q)} : q \in StepBaseQueries}

InitSteps ==
    /\ pc = "statement"
    /\ value = <<>>
    /\ text \in StepQueries
    /\ tokens = Tokenize(text)
    /\ parsed = Ok(1, <<>>)
    /\ text2 = <<>>
    /\ reparsed = NoResult
    /\ text3 = <<>>
    /\ sql = NoResult
    /\ statements = NoResult
    /\ config = DefaultConfig
    /\ stdout = <<>>
    /\ stderr = <<>>
    /\ exit_status = None

StepRest ==
    UNCHANGED <<text, tokens, text2, reparsed, text3, sql, statements, config, stdout,
                stderr, exit_status>>

InCall(f) == \E i \in 1..Len(value) : value[i] = f

Returned == SubSeq(value, 1, Len(value) - 1)

(* The parser goes on at place p with its index at pos, inside calls.      *)
StepMoves(p, pos, calls) ==
    /\ pc' = p
    /\ parsed' = Ok(pos, <<>>)
    /\ value' = calls
    /\ StepRest

(* `?` on an error: every function entered returns it.                     *)
StepFails(r) ==
    /\ pc' = "error"
    /\ parsed' = Err(r.pos, r.err)
    /\ value' = <<>>
    /\ StepRest

(* The statement's last step: r is the result of the rest of the function. *)
StepFinishes(r) ==
    IF r.ok THEN StepMoves("done", r.pos, <<>>) ELSE StepFails(r)

(* parse_cypher_statement, and the keywords at the head of the function it *)
(* dispatches to.                                                          *)
StepDispatch ==
    /\ pc = "statement"
    /\ CASE parse_keyword(tokens, parsed.pos, "MATCH") ->
              StepMoves("pattern", parsed.pos + 1,
                        <<"parse_cypher_statement", "parse_cypher_match",
                          "parse_cypher_match_with_optional", "parse_cypher_patterns">>)
         [] parse_keyword(tokens, parsed.pos, "OPTIONAL") ->
              IF parse_keyword(tokens, Advance(tokens, parsed.pos), "MATCH")
              THEN StepMoves("pattern", parsed.pos + 2,
                             <<"parse_cypher_statement", "parse_cypher_match_with_optional",
                               "parse_cypher_patterns">>)
              ELSE StepFails(expect_keyword(tokens, Advance(tokens, parsed.pos), "MATCH"))
         [] parse_keyword(tokens, parsed.pos, "CREATE") ->
              StepMoves("pattern", parsed.pos + 1,
                        <<"parse_cypher_statement", "parse_cypher_create",
                          "parse_cypher_patterns">>)
         [] parse_keyword(tokens, parsed.pos, "MERGE") ->
              StepMoves("pattern", parsed.pos + 1,
                        <<"parse_cypher_statement", "parse_cypher_merge",
                          "parse_cypher_patterns">>)
         [] parse_keyword(tokens, parsed.pos, "DELETE") ->
              StepMoves("delete_targets", parsed.pos + 1,
                        <<"parse_cypher_statement", "parse_cypher_delete">>)
         [] parse_keyword(tokens, parsed.pos, "DETACH") ->
              IF parse_keyword(tokens, parsed.pos + 1, "DELETE")
              THEN StepMoves("delete_targets", parsed.pos + 2,
                             <<"parse_cypher_statement", "parse_cypher_detach_delete">>)
              ELSE StepFails(Err(parsed.pos + 1, "DELETE"))
         [] OTHER -> StepFails(Err(parsed.pos, "MATCH, CREATE, MERGE, or DELETE"))

(* parse_cypher_pattern up to the call of parse_cypher_node.               *)
StepPatternStart ==
    /\ pc = "pattern"
    /\ IF consume_token(tokens, parsed.pos, "LParen")
       THEN StepMoves("labels",
                      IF peek_token(tokens, parsed.pos + 1).t = "Word"
                      THEN parsed.pos + 2 ELSE parsed.pos + 1,
                      value \o <<"parse_cypher_pattern", "parse_cypher_node">>)
       ELSE StepFails(Err(parsed.pos, "pattern starting with '('"))

(* One iteration of `while self.consume_token(&Token::Colon)` in           *)
(* parse_cypher_node.                                                      *)
StepLabelStalls ==
    /\ pc = "labels"
    /\ consume_token(tokens, parsed.pos, "Colon")
    /\ IF parse_identifier(tokens, parsed.pos + 1).ok
       THEN StepMoves("labels", parsed.pos, value)
       ELSE StepFails(parse_identifier(tokens, parsed.pos + 1))

StepLabel ==
    /\ pc = "labels"
    /\ consume_token(tokens, parsed.pos, "Colon")
    /\ IF parse_identifier(tokens, parsed.pos + 1).ok
       THEN StepMoves("labels", parse_identifier(tokens, parsed.pos + 1).pos, value)
       ELSE StepFails(parse_identifier(tokens, parsed.pos + 1))

(* The label loop ends; `{` opens the properties.                          *)
StepLabelsEnd ==
    /\ pc = "labels"
    /\ ~consume_token(tokens, parsed.pos, "Colon")
    /\ IF consume_token(tokens, parsed.pos, "LBrace")
       THEN StepMoves("map", parsed.pos + 1, value \o <<"parse_map_literal">>)
       ELSE StepMoves("node_close", parsed.pos, value)

(* parse_map_literal before its loop: `}` at once is the empty map.        *)
StepMapStart ==
    /\ pc = "map"
    /\ IF consume_token(tokens, parsed.pos, "RBrace")
       THEN StepMoves("properties_close", parsed.pos + 1, Returned)
       ELSE StepMoves("map_entry", parsed.pos, value)

(* key `:` value of one iteration of the loop of parse_map_literal.        *)
StepMapValue(toks, key) ==
    IF ~key.ok THEN key
    ELSE IF ~consume_token(toks, key.pos, "Colon") THEN Err(key.pos, ":")
    ELSE parse_expr(toks, key.pos + 1)

(* What follows the value: `,` and one more iteration, or the `}` that     *)
(* ends the loop and the function.                                         *)
StepMapNext(v) ==
    IF ~v.ok THEN StepFails(v)
    ELSE IF consume_token(tokens, v.pos, "Comma")
         THEN StepMoves("map_entry", v.pos + 1, value)
    ELSE IF consume_token(tokens, v.pos, "RBrace")
         THEN StepMoves("properties_close", v.pos + 1, Returned)
    ELSE StepFails(Err(v.pos, "}"))

(* One iteration of `loop` in parse_map_literal.                           *)
StepMapEntry ==
    /\ pc = "map_entry"
    /\ StepMapNext(StepMapValue(tokens, parse_identifier(tokens, parsed.pos)))

(* expect_token(&Token::RBrace) after parse_map_literal returned to        *)
(* parse_cypher_node or parse_cypher_relationship.                         *)
StepPropertiesClose ==
    /\ pc = "properties_close"
    /\ IF consume_token(tokens, parsed.pos, "RBrace")
       THEN StepMoves(IF value[Len(value)] = "parse_cypher_node"
                      THEN "node_close" ELSE "relationship_close",
                      parsed.pos + 1, value)
       ELSE StepFails(Err(parsed.pos, "}"))

(* expect_token(&Token::RParen) and the return of parse_cypher_node to the *)
(* loop of parse_cypher_pattern.                                           *)
StepNodeClose ==
    /\ pc = "node_close"
    /\ IF consume_token(tokens, parsed.pos, "RParen")
       THEN StepMoves("pattern_loop", parsed.pos + 1, Returned)
       ELSE StepFails(Err(parsed.pos, ")"))

(* parse_cypher_relationship from `<` `-` to the variable after `[`.       *)
StepRelationshipOpen(m) ==
    IF ~m.ok THEN StepFails(m)
    ELSE IF consume_token(tokens, m.pos, "LBracket")
         THEN StepMoves("types",
                        IF HasRelationshipVariable(tokens, m.pos + 1)
                        THEN m.pos + 2 ELSE m.pos + 1,
                        value \o <<"parse_cypher_relationship">>)
    ELSE StepMoves("direction", m.pos, value \o <<"parse_cypher_relationship">>)

(* One iteration of `while matches!(peek, Minus | Lt)` in                  *)
(* parse_cypher_pattern begins: parse_cypher_relationship is called.       *)
StepRelationship ==
    /\ pc = "pattern_loop"
    /\ peek_token(tokens, parsed.pos).t \in {"Minus", "Lt"}
    /\ StepRelationshipOpen(
           expect_token(tokens,
                        IF consume_token(tokens, parsed.pos, "Lt")
                        THEN parsed.pos + 1 ELSE parsed.pos,
                        "Minus", "-"))

(* The loop of parse_cypher_pattern ends and the pattern is returned to    *)
(* parse_comma_separated: `,` and one more pattern, or the patterns.       *)
StepPatternEnd ==
    /\ pc = "pattern_loop"
    /\ peek_token(tokens, parsed.pos).t \notin {"Minus", "Lt"}
    /\ IF consume_token(tokens, parsed.pos, "Comma")
       THEN StepMoves("pattern", parsed.pos + 1, Returned)
       ELSE StepMoves("clauses", parsed.pos, SubSeq(value, 1, Len(value) - 2))

(* One iteration of the outer `while self.consume_token(&Token::Colon)` of *)
(* parse_cypher_relationship, up to its inner loop.                        *)
StepType ==
    /\ pc = "types"
    /\ consume_token(tokens, parsed.pos, "Colon")
    /\ IF parse_identifier(tokens, parsed.pos + 1).ok
       THEN StepMoves("pipes", parse_identifier(tokens, parsed.pos + 1).pos, value)
       ELSE StepFails(parse_identifier(tokens, parsed.pos + 1))

(* One iteration of the inner `while self.consume_token(&Token::Pipe)`.    *)
StepPipe ==
    /\ pc = "pipes"
    /\ consume_token(tokens, parsed.pos, "Pipe")
    /\ IF parse_identifier(tokens, parsed.pos + 1).ok
       THEN StepMoves("pipes", parse_identifier(tokens, parsed.pos + 1).pos, value)
       ELSE StepFails(parse_identifier(tokens, parsed.pos + 1))

(* The inner loop ends: back to the test of the outer one.                 *)
StepPipesEnd ==
    /\ pc = "pipes"
    /\ ~consume_token(tokens, parsed.pos, "Pipe")
    /\ StepMoves("types", parsed.pos, value)

(* After the length: `{` opens the properties, else `]` is expected.       *)
StepLengthParsed(len) ==
    IF ~len.ok THEN StepFails(len)
    ELSE IF consume_token(tokens, len.pos, "LBrace")
         THEN StepMoves("map", len.pos + 1, value \o <<"parse_map_literal">>)
    ELSE StepMoves("relationship_close", len.pos, value)

(* The type loop ends; `*` and the length.                                 *)
StepTypesEnd ==
    /\ pc = "types"
    /\ ~consume_token(tokens, parsed.pos, "Colon")
    /\ StepLengthParsed(IF consume_token(tokens, parsed.pos, "Mul")
                        THEN parse_cypher_relationship_length(tokens, parsed.pos + 1)
                        ELSE Ok(parsed.pos, <<>>))

(* expect_token(&Token::RBracket)                                          *)
StepRelationshipClose ==
    /\ pc = "relationship_close"
    /\ IF consume_token(tokens, parsed.pos, "RBracket")
       THEN StepMoves("direction", parsed.pos + 1, value)
       ELSE StepFails(Err(parsed.pos, "]"))

(* parse_cypher_relationship returned at pos: `(` and parse_cypher_node    *)
(* with its variable, or the error of the pattern loop.                    *)
StepNodeAfter(pos) ==
    IF consume_token(tokens, pos, "LParen")
    THEN StepMoves("labels",
                   IF peek_token(tokens, pos + 1).t = "Word" THEN pos + 2 ELSE pos + 1,
                   Append(Returned, "parse_cypher_node"))
    ELSE StepFails(Err(pos, "node after relationship"))

(* `->`, or `-` and an optional `>`, end parse_cypher_relationship; the    *)
(* iteration of the pattern loop goes on with the node.                    *)
StepDirection ==
    /\ pc = "direction"
    /\ IF consume_token(tokens, parsed.pos, "Arrow")
       THEN StepNodeAfter(parsed.pos + 1)
       ELSE IF consume_token(tokens, parsed.pos, "Minus")
            THEN StepNodeAfter(IF consume_token(tokens, parsed.pos + 1, "Gt")
                               THEN parsed.pos + 2 ELSE parsed.pos + 1)
       ELSE StepFails(Err(parsed.pos, "relationship direction (- or ->)"))

(* The parser goes on at place p after r, or r is the error returned.      *)
StepParsed(p, r) == IF r.ok THEN StepMoves(p, r.pos, value) ELSE StepFails(r)

(* parse_comma_separated: after the element r, `,` and one more element   *)
(* at place again, or the list ends and the parser goes on at place after. *)
StepListed(again, after, r) ==
    IF ~r.ok THEN StepFails(r)
    ELSE IF consume_token(tokens, r.pos, "Comma") THEN StepMoves(again, r.pos + 1, value)
    ELSE StepMoves(after, r.pos, value)

(* After the optional WHERE: RETURN enters parse_cypher_return_clause,     *)
(* which takes DISTINCT; else the Match is returned.                       *)
StepWhereParsed(w) ==
    IF ~w.ok THEN StepFails(w)
    ELSE IF parse_keyword(tokens, w.pos, "RETURN")
         THEN StepMoves("items",
                        IF parse_keyword(tokens, w.pos + 1, "DISTINCT")
                        THEN w.pos + 2 ELSE w.pos + 1,
                        Append(value, "parse_cypher_return_clause"))
    ELSE StepFinishes(w)

(* parse_cypher_match_with_optional after the patterns: WHERE and its      *)
(* expression, and the keyword RETURN.                                     *)
StepWhere ==
    /\ pc = "clauses"
    /\ InCall("parse_cypher_match_with_optional")
    /\ StepWhereParsed(ParseOptionalExpr(tokens, parsed.pos, "WHERE"))

(* One item of parse_projection in parse_cypher_return_clause.            *)
StepReturnItem ==
    /\ pc = "items"
    /\ StepListed("items", "order_by", parse_select_item(tokens, parsed.pos))

(* ORDER BY and its one key.                                               *)
StepOrderBy ==
    /\ pc = "order_by"
    /\ StepParsed("skip",
                  IF /\ parse_keyword(tokens, parsed.pos, "ORDER")
                     /\ parse_keyword(tokens, parsed.pos + 1, "BY")
                  THEN parse_order_by_expr(tokens, parsed.pos + 2)
                  ELSE Ok(parsed.pos, <<>>))

(* SKIP and its expression.                                                *)
StepSkip ==
    /\ pc = "skip"
    /\ StepParsed("limit", ParseOptionalExpr(tokens, parsed.pos, "SKIP"))

(* LIMIT and its expression; the ReturnClause and the Match are returned.  *)
StepLimit ==
    /\ pc = "limit"
    /\ StepFinishes(ParseOptionalExpr(tokens, parsed.pos, "LIMIT"))

(* parse_cypher_create after the patterns.                                 *)
StepCreateEnd ==
    /\ pc = "clauses"
    /\ InCall("parse_cypher_create")
    /\ StepFinishes(Ok(parsed.pos, <<>>))

(* One iteration of `while self.parse_keyword(Keyword::ON)` in             *)
(* parse_cypher_merge begins: ON, CREATE or MATCH, SET.                    *)
StepOnBlock ==
    /\ pc = "clauses"
    /\ InCall("parse_cypher_merge")
    /\ parse_keyword(tokens, parsed.pos, "ON")
    /\ IF \/ parse_keyword(tokens, parsed.pos + 1, "CREATE")
          \/ parse_keyword(tokens, parsed.pos + 1, "MATCH")
       THEN StepParsed("set_clauses", expect_keyword(tokens, parsed.pos + 2, "SET"))
       ELSE StepFails(Err(parsed.pos + 1, "CREATE or MATCH after ON"))

(* After the target of a SET clause: expect_token(&Token::Eq).             *)
StepSetTargetParsed(t) ==
    IF ~t.ok THEN StepFails(t) ELSE StepParsed("set_value", expect_token(tokens, t.pos, "Eq", "="))

(* parse_cypher_set_clause up to its value.                                *)
StepSetTarget ==
    /\ pc = "set_clauses"
    /\ StepSetTargetParsed(parse_cypher_set_target(tokens, parsed.pos))

(* The value of the SET clause; after the last clause of                   *)
(* parse_cypher_set_clauses the iteration of the ON loop is over.          *)
StepSetValue ==
    /\ pc = "set_value"
    /\ StepListed("set_clauses", "clauses", parse_expr(tokens, parsed.pos))

(* One target of parse_cypher_delete or parse_cypher_detach_delete.        *)
StepDeleteTarget ==
    /\ pc = "delete_targets"
    /\ StepListed("delete_targets", "delete_where", parse_expr(tokens, parsed.pos))

(* The optional WHERE of the DELETE, which is then returned.               *)
StepDeleteWhere ==
    /\ pc = "delete_where"
    /\ StepFinishes(ParseOptionalExpr(tokens, parsed.pos, "WHERE"))

(* The ON loop ends and the Merge is returned.                             *)
StepMergeEnd ==
    /\ pc = "clauses"
    /\ InCall("parse_cypher_merge")
    /\ ~parse_keyword(tokens, parsed.pos, "ON")
    /\ StepFinishes(Ok(parsed.pos, <<>>))

NextSteps ==
    \/ StepDispatch
    \/ StepPatternStart
    \/ StepLabel
    \/ StepLabelsEnd
    \/ StepMapStart
    \/ StepMapEntry
    \/ StepPropertiesClose
    \/ StepNodeClose
    \/ StepRelationship
    \/ StepPatternEnd
    \/ StepType
    \/ StepPipe
    \/ StepPipesEnd
    \/ StepTypesEnd
    \/ StepRelationshipClose
    \/ StepDirection
    \/ StepWhere
    \/ StepReturnItem
    \/ StepOrderBy
    \/ StepSkip
    \/ StepLimit
    \/ StepCreateEnd
    \/ StepOnBlock
    \/ StepSetTarget
    \/ StepSetValue
    \/ StepMergeEnd
    \/ StepDeleteTarget
    \/ StepDeleteWhere

SpecSteps == InitSteps /\ [][NextSteps]_vars

(* The parser is one thread running to its return: a step that can be      *)
(* taken is taken.                                                         *)
FairSteps == SpecSteps /\ WF_vars(NextSteps)

(***************************************************************************)
(* The claims.                                                             *)
(***************************************************************************)
(* The statement the translation was given, and shapes of it.              *)
TranslatedMatch == pc = "translated" /\ parsed.val.kind = "Match"

TranslatedCreate == pc = "translated" /\ parsed.val.kind = "Create"

ElementsOf(stmt) == Flatten([i \in 1..Len(stmt.patterns) |-> stmt.patterns[i].elements])

(* RETURN v.p and nothing else: one unnamed dotted item, no DISTINCT,      *)
(* ORDER BY, SKIP or LIMIT.                                                *)
ReturnsOneProperty(stmt) ==
    /\ IsSome(stmt.return)
    /\ ~stmt.return[1].distinct
    /\ Len(stmt.return[1].items) = 1
    /\ stmt.return[1].items[1].kind = "UnnamedExpr"
    /\ stmt.return[1].items[1].expr[1].kind = "CompoundIdentifier"
    /\ Len(stmt.return[1].items[1].expr[1].parts) = 2
    /\ stmt.return[1].order_by = <<>>
    /\ stmt.return[1].limit = None
    /\ stmt.return[1].skip = None

(* MATCH (v...) RETURN v.p: one pattern of one node with a variable, no    *)
(* WHERE, and the returned property is read from that variable.            *)
SingleNodeQuery(stmt) ==
    /\ stmt.kind = "Match"
    /\ ~stmt.optional
    /\ Len(stmt.patterns) = 1
    /\ Len(stmt.patterns[1].elements) = 1
    /\ IsSome(stmt.patterns[1].elements[1].variable)
    /\ stmt.where = None
    /\ ReturnsOneProperty(stmt)
    /\ stmt.return[1].items[1].expr[1].parts[1] = stmt.patterns[1].elements[1].variable[1]

TheNode == parsed.val.patterns[1].elements[1]

TheProperty == parsed.val.return[1].items[1].expr[1].parts[2]

PropertyProjection(v, p) ==
    <<"SELECT ", "json_extract(", v, ".properties, '$.", p, "') as ", p>>

(* The pieces of a text that belong to a set, in the order they appear.    *)
PiecesIn(txt, set) == SelectSeq(txt, LAMBDA x : x \in set)

IndexOf(txt, piece) == CHOOSE i \in 1..Len(txt) : txt[i] = piece

ClauseStarts == {" WHERE ", " ORDER BY ", " LIMIT ", " OFFSET "}

(* The conditions of the WHERE clause: the text after ` WHERE ` up to the  *)
(* next clause.                                                            *)
WhereText(txt) ==
    LET from == IndexOf(txt, " WHERE ") + 1
        stops == {j \in from..Len(txt) : txt[j] \in ClauseStarts \ {" WHERE "}}
        to == IF stops = {} THEN Len(txt)
              ELSE (CHOOSE j \in stops : \A k \in stops : j <= k) - 1 IN
    SubSeq(txt, from, to)

(* C1: for every pattern parse_cypher_pattern accepts, parsing its Display  *)
(* rendering succeeds and consumes it whole, and rendering the result      *)
(* gives the first rendering again.                                        *)
C1_PatternRoundTrip ==
    /\ pc = "reparsed" => reparsed.ok /\ reparsed.pos = Len(tokens) + 1
    /\ pc = "rerendered" => text3 = text2

(* C1, the failing case: the pattern (a)-[r:T]->(b) has been parsed and    *)
(* rendered, and parsing the rendering has failed.                         *)
C1_DirectedRenderingRejected ==
    /\ pc = "reparsed"
    /\ parsed.ok
    /\ Len(parsed.val.elements) = 3
    /\ parsed.val.elements[2].direction = "Right"
    /\ ~reparsed.ok

(* C2: for every RelationshipLength value, parsing its rendering succeeds  *)
(* and rendering the parsed value gives the first rendering again; in      *)
(* particular Range(None, None) comes back as Range(None, None).           *)
C2_LengthRenderParseRender ==
    /\ pc = "parsed" => parsed.ok
    /\ pc = "rerendered" => text2 = text /\ parsed.val = value

(* C2, the failing case: Range(None, None) was rendered as `*..`, parsed   *)
(* as Variable, and rendered again as `*`.                                 *)
C2_OpenRangeCollapsed ==
    /\ pc = "rerendered"
    /\ value = Range(None, None)
    /\ text = <<"*", ".", ".">>
    /\ parsed.val = Variable
    /\ text2 = <<"*">>

(* C3: the translation of a MERGE or DELETE statement is never Ok; for     *)
(* MERGE the error is "MERGE transformation not yet implemented".          *)
C3_UnsupportedStatementsFail ==
    pc = "translated" /\ parsed.val.kind \in {"Merge", "Delete"}
      => /\ ~sql.ok
         /\ parsed.val.kind = "Merge"
              => sql.err = "MERGE transformation not yet implemented"

(* C3, the failing case: a MERGE statement was translated and the result   *)
(* is Ok, holding an SQL comment.                                          *)
C3_MergeTranslatedOk ==
    /\ pc = "translated"
    /\ parsed.val.kind = "Merge"
    /\ sql.ok
    /\ sql.val = <<"-- Transformation not yet implemented for this Cypher statement type">>

(* C4: with use_label_tables = false, MATCH (v:L) RETURN v.p translates to *)
(* exactly SELECT json_extract(v.properties, '$.p') as p FROM nodes v      *)
(* WHERE v.label = 'L', L being the node's first label.                    *)
C4_GenericTableNodeQuery ==
    /\ pc = "translated"
    /\ ~config.use_label_tables
    /\ SingleNodeQuery(parsed.val)
    /\ TheNode.labels # <<>>
    => /\ sql.ok
       /\ sql.val = PropertyProjection(TheNode.variable[1], TheProperty)
                      \o <<" FROM ", "nodes ", TheNode.variable[1], " WHERE ",
                           TheNode.variable[1], ".label = '", TheNode.labels[1], "'">>

(* C4, its case: MATCH (m:User:Admin) RETURN m.id has been translated      *)
(* with use_label_tables = false.                                          *)
C4_Witness ==
    /\ pc = "translated"
    /\ ~config.use_label_tables
    /\ SingleNodeQuery(parsed.val)
    /\ TheNode.labels = <<"User", "Admin">>
    /\ TheProperty = "id"
    /\ sql.ok

(* C5: with use_label_tables = true, a MATCH whose first node is labelled  *)
(* reads it from the table named after its first label, and the SELECT     *)
(* holds no label predicate for a labelled node.                           *)
C5_LabelTableWhenConfigured ==
    /\ TranslatedMatch
    /\ config.use_label_tables
    /\ parsed.val.patterns[1].elements[1].labels # <<>>
    => /\ sql.ok
       /\ sql.val[IndexOf(sql.val, " FROM ") + 1]
            = parsed.val.patterns[1].elements[1].labels[1]
       /\ ~Contains(sql.val, ".label = '")

(* C5, the failing case: MATCH (n:Person) RETURN n.name translated under   *)
(* the default configuration reads from nodes and filters on the label.    *)
C5_GenericTableDespiteConfig ==
    /\ TranslatedMatch
    /\ config.use_label_tables
    /\ SingleNodeQuery(parsed.val)
    /\ TheNode.labels = <<"Person">>
    /\ sql.val = PropertyProjection("n", "name")
                   \o <<" FROM ", "nodes ", "n", " WHERE ", "n", ".label = '", "Person", "'">>

(* A pattern (a:A)-[r:T]-(b:B) alone, without a user WHERE.                *)
LabelledPair(stmt) ==
    /\ stmt.kind = "Match"
    /\ Len(stmt.patterns) = 1
    /\ Len(stmt.patterns[1].elements) = 3
    /\ stmt.patterns[1].elements[1].labels # <<>>
    /\ IsSome(stmt.patterns[1].elements[1].variable)
    /\ stmt.patterns[1].elements[2].types # <<>>
    /\ stmt.patterns[1].elements[3].labels # <<>>
    /\ IsSome(stmt.patterns[1].elements[3].variable)
    /\ stmt.where = None

FirstNode == parsed.val.patterns[1].elements[1]

TheRelationship == parsed.val.patterns[1].elements[2]

SecondNode == parsed.val.patterns[1].elements[3]

TypePredicate ==
    <<IF IsSome(TheRelationship.variable) THEN TheRelationship.variable[1] ELSE "r1",
      ".type = '", TheRelationship.types[1], "'">>

(* C6 as stated: for a two-node pattern with both nodes labelled and one   *)
(* typed relationship, no user WHERE, the WHERE clause is the relationship *)
(* type predicate AND the second node's label predicate, and no more.      *)
C6_TwoPredicates ==
    pc = "translated" /\ LabelledPair(parsed.val)
      => /\ sql.ok
         /\ Contains(sql.val, " WHERE ")
         /\ WhereText(sql.val)
              = TypePredicate \o <<" AND ">>
                  \o <<SecondNode.variable[1], ".label = '", SecondNode.labels[1], "'">>

(* C6 amended: the WHERE clause ANDs three predicates in traversal order:  *)
(* the first node's label, the relationship type, the second node's label. *)
C6_ThreePredicates ==
    pc = "translated" /\ LabelledPair(parsed.val)
      => /\ sql.ok
         /\ Contains(sql.val, " WHERE ")
         /\ WhereText(sql.val)
              = <<FirstNode.variable[1], ".label = '", FirstNode.labels[1], "'">>
                  \o <<" AND ">> \o TypePredicate \o <<" AND ">>
                  \o <<SecondNode.variable[1], ".label = '", SecondNode.labels[1], "'">>

(* C6, its case: MATCH (n:Person)-[r:KNOWS]->(m:User:Admin) RETURN n.name, *)
(* m.name has been translated.                                             *)
C6_Witness ==
    /\ pc = "translated"
    /\ LabelledPair(parsed.val)
    /\ FirstNode.variable = Some("n")
    /\ TheRelationship.variable = Some("r")
    /\ SecondNode.variable = Some("m")
    /\ IsSome(parsed.val.return)
    /\ Len(parsed.val.return[1].items) = 2
    /\ sql.ok

JoinKinds == {"JOIN nodes ", "JOIN relationships "}

(* C7: a MATCH with N nodes and R relationships gives one base FROM table, *)
(* the first node; N-1 joins JOIN nodes <alias> ON TRUE; R relationship    *)
(* joins; and the joins follow the order of the pattern elements.          *)
C7_OneFromThenJoinsInOrder ==
    TranslatedMatch
      => LET elements == ElementsOf(parsed.val)
             txt == sql.val
             from == IndexOf(txt, " FROM ") IN
         /\ sql.ok
         /\ Len(PiecesIn(txt, {" FROM "})) = 1
         /\ Len(PiecesIn(txt, {"nodes "})) = 1
         /\ txt[from + 1] = "nodes "
         /\ IsSome(elements[1].variable) => txt[from + 2] = elements[1].variable[1]
         /\ ~IsSome(elements[1].variable) => txt[from + 2] = "n1"
         /\ from + 2 = Len(txt) \/ txt[from + 3] \in {" "} \cup ClauseStarts
         /\ PiecesIn(txt, JoinKinds)
              = [i \in 1..(Len(elements) - 1) |->
                   IF elements[i + 1].kind = "Node" THEN "JOIN nodes "
                   ELSE "JOIN relationships "]
         /\ \A i \in 1..Len(txt) : txt[i] = "JOIN nodes " => txt[i + 2] = " ON TRUE"
         /\ \A i \in 1..Len(txt) : txt[i] = "JOIN relationships " => txt[i + 2] = " ON "

(* C7, its case: a MATCH of two patterns with four nodes and two           *)
(* relationships has been translated.                                      *)
C7_Witness ==
    /\ TranslatedMatch
    /\ Len(parsed.val.patterns) = 2
    /\ Len(ElementsOf(parsed.val)) = 6
    /\ Len(PiecesIn(sql.val, {"JOIN nodes "})) = 3
    /\ Len(PiecesIn(sql.val, {"JOIN relationships "})) = 2

InsertKinds ==
    {"INSERT INTO nodes (label, properties) VALUES (",
     "INSERT INTO relationships (from_id, to_id, type, properties) VALUES ("}

(* C8: a CREATE gives one INSERT per pattern element, in pattern order     *)
(* across all patterns: into nodes for a Node, into relationships for a    *)
(* Relationship.                                                           *)
C8_OneInsertPerElement ==
    TranslatedCreate
      => LET elements == ElementsOf(parsed.val) IN
         /\ sql.ok
         /\ PiecesIn(sql.val, InsertKinds)
              = [i \in 1..Len(elements) |->
                   IF elements[i].kind = "Node"
                   THEN "INSERT INTO nodes (label, properties) VALUES ("
                   ELSE "INSERT INTO relationships (from_id, to_id, type, properties) VALUES ("]

(* C8, its case: a CREATE of two patterns, six elements, has been          *)
(* translated into six INSERTs.                                            *)
C8_Witness ==
    /\ TranslatedCreate
    /\ Len(parsed.val.patterns) = 2
    /\ Len(ElementsOf(parsed.val)) = 6
    /\ Len(PiecesIn(sql.val, InsertKinds)) = 6

SingleNodeCreate(stmt) ==
    /\ stmt.kind = "Create"
    /\ Len(stmt.patterns) = 1
    /\ Len(stmt.patterns[1].elements) = 1

(* C9: CREATE of a single node gives INSERT INTO nodes (label, properties) *)
(* VALUES (X, '{}'), X the quoted first label or NULL when there is none,  *)
(* with nothing after it.                                                  *)
C9_SingleNodeInsert ==
    pc = "translated" /\ SingleNodeCreate(parsed.val)
      => /\ sql.ok
         /\ sql.val = <<"INSERT INTO nodes (label, properties) VALUES (">>
                        \o (IF TheNode.labels # <<>>
                            THEN <<"'", TheNode.labels[1], "'">> ELSE <<"NULL">>)
                        \o <<", ", "'{}')">>

(* C9, its case: CREATE (m:User:Admin) has been translated; the second     *)
(* label is not in the output.                                             *)
C9_Witness ==
    /\ pc = "translated"
    /\ SingleNodeCreate(parsed.val)
    /\ TheNode.labels = <<"User", "Admin">>
    /\ sql.ok
    /\ ~Contains(sql.val, "Admin")

(* C10: the SELECT of a MATCH has a WHERE clause exactly when the MATCH    *)
(* has a labelled node, a typed relationship or a user WHERE; MATCH (v)    *)
(* RETURN v.p gives SELECT json_extract(v.properties, '$.p') as p FROM     *)
(* nodes v.                                                                *)
C10_WhereIffConditions ==
    TranslatedMatch
      => LET elements == ElementsOf(parsed.val) IN
         /\ sql.ok
         /\ Contains(sql.val, " WHERE ")
              <=> \/ \E i \in 1..Len(elements) :
                        elements[i].kind = "Node" /\ elements[i].labels # <<>>
                  \/ \E i \in 1..Len(elements) :
                        elements[i].kind = "Relationship" /\ elements[i].types # <<>>
                  \/ IsSome(parsed.val.where)
         /\ SingleNodeQuery(parsed.val) /\ TheNode.labels = <<>>
              => sql.val = PropertyProjection(TheNode.variable[1], TheProperty)
                             \o <<" FROM ", "nodes ", TheNode.variable[1]>>

(* C10, its case: MATCH (n) RETURN n.id has been translated.               *)
C10_Witness ==
    /\ TranslatedMatch
    /\ SingleNodeQuery(parsed.val)
    /\ TheNode.labels = <<>>
    /\ TheProperty = "id"
    /\ ~Contains(sql.val, " WHERE ")

(***************************************************************************)
(* Claims about the parser's dispatch and its errors, checked on the       *)
(* command-line program's runs (SpecCli).                                  *)
(***************************************************************************)
(* parse_cypher_statement has returned for the query of this run.          *)
StatementParsed == pc \in {"parsed", "exited"} /\ parsed # NoResult

LeadingToken == peek_token(tokens, 1)

SecondToken == peek_nth_token(tokens, 1, 1)

LeadingKeywords == {"MATCH", "OPTIONAL", "CREATE", "MERGE", "DELETE", "DETACH"}

HasLeadingKeyword == \E k \in LeadingKeywords : IsKeyword(LeadingToken, k)

(* C11: parse_cypher_statement dispatches on the leading keyword: a        *)
(* statement it returns is a Match with optional = false after MATCH, a    *)
(* Match with optional = true after OPTIONAL MATCH, a Create after CREATE, *)
(* a Merge after MERGE, a Delete with detach = false after DELETE and a    *)
(* Delete with detach = true after DETACH DELETE; OPTIONAL not followed by *)
(* MATCH and DETACH not followed by DELETE are errors at the second token; *)
(* any other leading token gives the error that MATCH, CREATE, MERGE, or   *)
(* DELETE was expected, at the first token, with no token consumed.        *)
C11_DispatchOnLeadingKeyword ==
    StatementParsed =>
        /\ IsKeyword(LeadingToken, "MATCH") /\ parsed.ok =>
              parsed.val.kind = "Match" /\ ~parsed.val.optional
        /\ IsKeyword(LeadingToken, "OPTIONAL") =>
              IF IsKeyword(SecondToken, "MATCH")
              THEN parsed.ok => parsed.val.kind = "Match" /\ parsed.val.optional
              ELSE ~parsed.ok /\ parsed.pos = 2 /\ parsed.err = "MATCH"
        /\ IsKeyword(LeadingToken, "CREATE") /\ parsed.ok => parsed.val.kind = "Create"
        /\ IsKeyword(LeadingToken, "MERGE") /\ parsed.ok => parsed.val.kind = "Merge"
        /\ IsKeyword(LeadingToken, "DELETE") /\ parsed.ok =>
              parsed.val.kind = "Delete" /\ ~parsed.val.detach
        /\ IsKeyword(LeadingToken, "DETACH") =>
              IF IsKeyword(SecondToken, "DELETE")
              THEN parsed.ok => parsed.val.kind = "Delete" /\ parsed.val.detach
              ELSE ~parsed.ok /\ parsed.pos = 2 /\ parsed.err = "DELETE"
        /\ ~HasLeadingKeyword =>
              /\ ~parsed.ok
              /\ parsed.pos = 1
              /\ parsed.err = "MATCH, CREATE, MERGE, or DELETE"
        /\ value.query.family = "dispatch" /\ HasLeadingKeyword
              /\ (IsKeyword(LeadingToken, "OPTIONAL") => IsKeyword(SecondToken, "MATCH"))
              /\ (IsKeyword(LeadingToken, "DETACH") => IsKeyword(SecondToken, "DELETE"))
              => parsed.ok

(* A query led by RETURN was rejected at its first token.                  *)
C11_Witness ==
    /\ StatementParsed
    /\ IsKeyword(LeadingToken, "RETURN")
    /\ ~parsed.ok
    /\ parsed.pos = 1
    /\ parsed.err = "MATCH, CREATE, MERGE, or DELETE"

(* C12: a query whose node pattern is not closed by `)` makes              *)
(* parse_cypher_statement return the error that `)` was expected, at the   *)
(* token that stands in its place; no statement is returned and nothing is *)
(* translated or printed.                                                  *)
C12_UnclosedNodeIsParseError ==
    StatementParsed /\ value.query.family = "unclosed" =>
        /\ ~parsed.ok
        /\ parsed.err = ")"
        /\ parsed.pos = value.query.detail.at
        /\ parsed.val = <<>>
        /\ pc = "exited"
        /\ sql = NoResult
        /\ stdout = <<>>

(* `MATCH (n:Person RETURN n` was rejected at RETURN.                      *)
C12_Witness ==
    /\ StatementParsed
    /\ value.query.family = "unclosed"
    /\ IsKeyword(peek_token(tokens, parsed.pos), "RETURN")
    /\ Len(tokens) = 7
    /\ parsed.err = ")"

(* C13: the command-line program exits with 0 only when parsing and        *)
(* translation both succeeded and exits with 1, after printing             *)
(* `Error: <message>`, on every failure; an empty query and a MERGE or     *)
(* DELETE query, whose translation is a failure, exit with 1.              *)
C13_ExitStatusReflectsFailure ==
    pc = "exited" =>
        /\ exit_status \in {Some(0), Some(1)}
        /\ exit_status = Some(0) => parsed.ok /\ sql.ok
        /\ exit_status = Some(1) => stderr # <<>> /\ stderr[1] = "Error: "
        /\ text = <<>> => exit_status = Some(1)
        /\ ~parsed.ok => exit_status = Some(1)
        /\ parsed.ok /\ parsed.val.kind \in {"Merge", "Delete"} => exit_status = Some(1)

(* A MERGE query ended with exit status 0 and the placeholder comment on   *)
(* standard output.                                                        *)
C13_MergeExitsZero ==
    /\ pc = "exited"
    /\ parsed.ok
    /\ parsed.val.kind = "Merge"
    /\ exit_status = Some(0)
    /\ stdout = <<NotImplementedComment>>
    /\ stderr = <<>>

(***************************************************************************)
(* Claims about the shape of a Pattern.                                    *)
(***************************************************************************)
(* The alternation invariant of a pattern's elements: an odd number of     *)
(* them, Nodes at the odd places and Relationships at the even places.     *)
Alternates(elements) ==
    /\ Len(elements) % 2 = 1
    /\ \A i \in 1..Len(elements) :
          elements[i].kind = (IF i % 2 = 1 THEN "Node" ELSE "Relationship")

(* C14: a Pattern whose elements violate the alternation invariant cannot  *)
(* be constructed: every constructed Pattern has an odd, non-zero number   *)
(* of elements alternating Node, Relationship, Node, ...                   *)
C14_ConstructedPatternAlternates ==
    pc \in {"constructed", "rendered"} => Alternates(value.elements)

(* A Pattern of one Relationship and nothing else was constructed and      *)
(* rendered.                                                               *)
C14_RelationshipOnlyPattern ==
    /\ pc = "rendered"
    /\ Len(value.elements) = 1
    /\ value.elements[1].kind = "Relationship"
    /\ text = <<"[", "r", ":", "T", "]", ">">>

(* The chunks 1..k are node, relationship, node, ... in turn.              *)
ChunksAlternate(chunks, k) ==
    \A i \in 1..k :
        IF i % 2 = 1 THEN chunks[i] = "node" ELSE chunks[i] \in RelationshipChunks

(* C15: a Pattern returned by parse_cypher_pattern has an odd, non-zero    *)
(* number of elements alternating Node, Relationship, Node, ...; tokens    *)
(* that do not start with `(` give the error that a pattern starting with  *)
(* '(' was expected, and a relationship not followed by `(` gives the      *)
(* error that a node was expected after the relationship.                  *)
C15_ParsedPatternAlternates ==
    pc = "parsed" =>
        /\ parsed.ok => Alternates(parsed.val.elements)
        /\ (value = <<>> \/ value[1] # "node") =>
              /\ ~parsed.ok
              /\ parsed.pos = 1
              /\ parsed.err = "pattern starting with '('"
        /\ (\E k \in 1..Len(value) :
               /\ k % 2 = 0
               /\ ChunksAlternate(value, k)
               /\ (k = Len(value) \/ value[k + 1] # "node")) =>
              /\ ~parsed.ok
              /\ parsed.err = "node after relationship"

(* A pattern of three nodes and two relationships was parsed.              *)
C15_Witness ==
    /\ pc = "parsed"
    /\ Len(value) = 5
    /\ ChunksAlternate(value, 5)
    /\ parsed.ok
    /\ Len(parsed.val.elements) = 5
    /\ parsed.pos = Len(tokens) + 1

(***************************************************************************)
(* Claims about property maps, labels, MERGE and RETURN, checked on the    *)
(* command-line program's runs (SpecCli).                                  *)
(***************************************************************************)
PropertyFamilies == {"node_properties", "relationship_properties"}

(* The element of the parsed statement that carries the property map: the  *)
(* node of `(n:Person {..})`, the relationship of `(a)-[r:T {..}]->(b)`.   *)
PropertyElement ==
    parsed.val.patterns[1].elements[
        IF value.query.family = "node_properties" THEN 1 ELSE 2]

(* C16: a node `(v:L {k: e})` and a relationship body `[v:T {k: e}]`, the  *)
(* map closed by a single `}`, parse successfully; the element's           *)
(* properties are present and hold the (key, value) pairs in order.        *)
C16_SingleBracePropertiesParse ==
    StatementParsed /\ value.query.family \in PropertyFamilies
        /\ value.query.detail.braces = 1 =>
            /\ parsed.ok
            /\ PropertyElement.properties = Some(MapPairs(value.query.detail.keys))

(* `MATCH (n:Person {name: 1}) RETURN n` was rejected at the `)`, where a  *)
(* second `}` was expected.                                                *)
C16_SecondBraceDemanded ==
    /\ StatementParsed
    /\ value.query.family = "node_properties"
    /\ value.query.detail = [keys |-> <<"name">>, braces |-> 1]
    /\ ~parsed.ok
    /\ parsed.err = "}"
    /\ peek_token(tokens, parsed.pos) = Tok("RParen")
    /\ peek_token(tokens, parsed.pos - 1) = Tok("RBrace")

(***************************************************************************)
(* The length specification, token by token (SpecLengthTokens).            *)
(***************************************************************************)
(* The i-th symbol after the `*`, "end" after the last.                    *)
LengthSymbolAt(i) == IF i <= Len(value) THEN value[i] ELSE "end"

IsInteger(x) == x \in {"3", "7"}

IsInvalidNumber(x) == x \in {"big", "frac"}

IsNumberSymbol(x) == IsInteger(x) \/ IsInvalidNumber(x)

IntegerOf(x) == IF x = "3" THEN 3 ELSE 7

LengthIs(len, consumed) == parsed.ok /\ parsed.val = len /\ parsed.pos = consumed + 1

LengthFails(msg) == ~parsed.ok /\ parsed.err = msg

(* C17: after `*`, N alone is Exact(N); N..M is Range(N, M); N.. is        *)
(* Range(N, none); ..M is Range(none, M); .. alone is Variable; neither an *)
(* integer nor `.` is Variable; a single `.` is a parse error; a number    *)
(* token that is not an unsigned 64-bit integer is the error "Invalid      *)
(* number in relationship length".                                         *)
C17_LengthGrammar ==
    pc = "parsed" =>
        /\ IsInteger(LengthSymbolAt(1)) /\ LengthSymbolAt(2) # "." =>
              LengthIs(Exact(IntegerOf(LengthSymbolAt(1))), 1)
        /\ IsInteger(LengthSymbolAt(1)) /\ LengthSymbolAt(2) = "."
              /\ LengthSymbolAt(3) = "." /\ IsInteger(LengthSymbolAt(4)) =>
              LengthIs(Range(Some(IntegerOf(LengthSymbolAt(1))),
                             Some(IntegerOf(LengthSymbolAt(4)))), 4)
        /\ IsInteger(LengthSymbolAt(1)) /\ LengthSymbolAt(2) = "."
              /\ LengthSymbolAt(3) = "." /\ ~IsNumberSymbol(LengthSymbolAt(4)) =>
              LengthIs(Range(Some(IntegerOf(LengthSymbolAt(1))), None), 3)
        /\ LengthSymbolAt(1) = "." /\ LengthSymbolAt(2) = "."
              /\ IsInteger(LengthSymbolAt(3)) =>
              LengthIs(Range(None, Some(IntegerOf(LengthSymbolAt(3)))), 3)
        /\ LengthSymbolAt(1) = "." /\ LengthSymbolAt(2) = "."
              /\ ~IsNumberSymbol(LengthSymbolAt(3)) =>
              LengthIs(Variable, 2)
        /\ LengthSymbolAt(1) \in {"]", "end"} => LengthIs(Variable, 0)
        /\ LengthSymbolAt(1) = "." /\ LengthSymbolAt(2) # "." =>
              LengthFails(".") /\ parsed.pos = 2
        /\ IsInteger(LengthSymbolAt(1)) /\ LengthSymbolAt(2) = "."
              /\ LengthSymbolAt(3) # "." =>
              LengthFails(".") /\ parsed.pos = 3
        /\ IsInvalidNumber(LengthSymbolAt(1)) => LengthFails(InvalidNumber)
        /\ IsInteger(LengthSymbolAt(1)) /\ LengthSymbolAt(2) = "."
              /\ LengthSymbolAt(3) = "." /\ IsInvalidNumber(LengthSymbolAt(4)) =>
              LengthFails(InvalidNumber)
        /\ LengthSymbolAt(1) = "." /\ LengthSymbolAt(2) = "."
              /\ IsInvalidNumber(LengthSymbolAt(3)) =>
              LengthFails(InvalidNumber)

(* `*3..` followed by a number that does not fit in 64 bits was rejected   *)
(* as an invalid number.                                                   *)
C17_Witness ==
    /\ pc = "parsed"
    /\ value = <<"3", ".", ".", "big">>
    /\ LengthFails(InvalidNumber)

(***************************************************************************)
(* `(:Label)` and `(Label)` (SpecCli).                                     *)
(***************************************************************************)
LabelFormParsed == StatementParsed /\ value.query.family = "label_form"

(* The node parse_cypher_node returns for the other way of writing it.     *)
OtherLabelForm ==
    parse_cypher_node(Tokenize(NodeLabelText(~value.query.detail.leading_colon)), 2)

(* C18 as stated: parse_cypher_node returns the same Node, with the same   *)
(* variable and the same labels, for `(:Label)` as for `(Label)`.          *)
C18_LabelFormsParseAlike ==
    LabelFormParsed =>
        /\ parsed.ok
        /\ OtherLabelForm.ok
        /\ parsed.val.patterns[1].elements[1] = OtherLabelForm.val

(* C18 as amended: parse_cypher_node tells the two apart: `(:Label)` is a  *)
(* Node without variable whose labels are [Label], and `(Label)` is a Node *)
(* whose variable is Label and whose labels are empty.                     *)
C18_LeadingColonMeansNoVariable ==
    LabelFormParsed =>
        /\ parsed.ok
        /\ parsed.val.patterns =
              <<Pattern(<<IF value.query.detail.leading_colon
                          THEN Node(None, <<"Label">>, None)
                          ELSE Node(Some("Label"), <<>>, None)>>)>>

(* `MATCH (:Label)` was parsed into a node without variable.               *)
C18_Witness ==
    /\ LabelFormParsed
    /\ value.query.detail.leading_colon
    /\ parsed.ok
    /\ parsed.val.kind = "Match"
    /\ parsed.val.patterns[1].elements[1].variable = None
    /\ parsed.val.patterns[1].elements[1].labels = <<"Label">>

(***************************************************************************)
(* ON CREATE SET / ON MATCH SET blocks of MERGE (SpecCli).                 *)
(***************************************************************************)
(* The SET clauses of the last block of the kind, if there is one.         *)
LastOnBlock(blocks, create) ==
    LET of_kind == {i \in 1..Len(blocks) : OnBlockCreates(blocks[i]) = create} IN
    IF of_kind = {} THEN None
    ELSE Some(OnBlockClauses(blocks[CHOOSE i \in of_kind : \A j \in of_kind : j <= i]))

(* C19: MERGE accepts any sequence of ON CREATE SET and ON MATCH SET       *)
(* blocks; on_create is the SET clauses of the last ON CREATE block and    *)
(* on_match those of the last ON MATCH block, none if there was no such    *)
(* block; ON followed by anything but CREATE or MATCH is a parse error.    *)
C19_LastOnBlockWins ==
    StatementParsed =>
        /\ value.query.family = "merge_on" =>
              /\ parsed.ok
              /\ parsed.pos = Len(tokens) + 1
              /\ parsed.val.kind = "Merge"
              /\ parsed.val.on_create = LastOnBlock(value.query.detail, TRUE)
              /\ parsed.val.on_match = LastOnBlock(value.query.detail, FALSE)
        /\ value.query.family = "merge_bad_on" =>
              /\ ~parsed.ok
              /\ parsed.err = "CREATE or MATCH after ON"

(* ON CREATE, ON MATCH, ON CREATE: the second ON CREATE block replaced the *)
(* first.                                                                  *)
C19_Witness ==
    /\ StatementParsed
    /\ value.query.family = "merge_on"
    /\ value.query.detail = <<"C1", "M2", "C2">>
    /\ parsed.ok
    /\ parsed.val.on_create = Some(OnBlockClauses("C2"))
    /\ parsed.val.on_match = Some(OnBlockClauses("M2"))

(***************************************************************************)
(* SKIP and LIMIT of the RETURN clause (SpecCli).                          *)
(***************************************************************************)
SkipLimitParsed == StatementParsed /\ value.query.family = "skip_limit"

SkipOne == Some(NumberValue(<<"1">>))

LimitTwo == Some(NumberValue(<<"2">>))

(* C20: `SKIP a LIMIT b` records both; `LIMIT b SKIP a` parses with the    *)
(* limit, without skip, the parser stopping at SKIP with no error, and the *)
(* program goes on to exit with 0; the rendering of a RETURN clause with   *)
(* both prints SKIP before LIMIT.                                          *)
C20_SkipOnlyBeforeLimit ==
    SkipLimitParsed =>
        /\ parsed.ok
        /\ IsSome(parsed.val.return)
        /\ value.query.detail.order = "skip_limit" =>
              /\ parsed.val.return[1].skip = SkipOne
              /\ parsed.val.return[1].limit = LimitTwo
              /\ parsed.pos = Len(tokens) + 1
              /\ PiecesIn(DisplayReturnClause(parsed.val.return[1]), {"SKIP", "LIMIT"})
                    = <<"SKIP", "LIMIT">>
        /\ value.query.detail.order = "limit_skip" =>
              /\ parsed.val.return[1].skip = None
              /\ parsed.val.return[1].limit = LimitTwo
              /\ parsed.pos = Len(tokens) - 1
              /\ IsKeyword(peek_token(tokens, parsed.pos), "SKIP")
              /\ pc = "exited" => exit_status = Some(0) /\ stderr = <<>>
        /\ value.query.detail.order = "skip" =>
              /\ parsed.val.return[1].skip = SkipOne
              /\ parsed.val.return[1].limit = None
              /\ parsed.pos = Len(tokens) + 1
        /\ value.query.detail.order = "limit" =>
              /\ parsed.val.return[1].skip = None
              /\ parsed.val.return[1].limit = LimitTwo
              /\ parsed.pos = Len(tokens) + 1

(* `... RETURN n LIMIT 2 SKIP 1` ended with exit status 0, the SKIP left   *)
(* unparsed.                                                               *)
C20_Witness ==
    /\ SkipLimitParsed
    /\ value.query.detail.order = "limit_skip"
    /\ pc = "exited"
    /\ exit_status = Some(0)
    /\ parsed.val.return[1].skip = None
    /\ parsed.val.return[1].limit = LimitTwo
    /\ parsed.pos < Len(tokens)

(***************************************************************************)
(* Claims about the MATCH translation, read off the states of              *)
(* SpecTranslate.                                                          *)
(***************************************************************************)
LibraryMatch == pc = "library" /\ parsed.val.kind = "Match"

ReturnedItems == IF IsSome(parsed.val.return) THEN parsed.val.return[1].items ELSE <<>>

(* The select list of the emitted text: what stands between `SELECT `      *)
(* (and `DISTINCT `) and ` FROM `, cut at the `, ` separators.             *)
SelectList(txt) ==
    LET from == IF txt[2] = "DISTINCT " THEN 3 ELSE 2 IN
    Split(SubSeq(txt, from, IndexOf(txt, " FROM ") - 1), ", ")

IsDottedPair(e) == e.kind = "CompoundIdentifier" /\ Len(e.parts) = 2

(* What the claim says an item becomes.                                    *)
ItemAsClaimed(item) ==
    CASE item.kind = "Wildcard" -> <<"*">>
      [] item.kind = "UnnamedExpr" ->
            IF IsDottedPair(item.expr[1])
            THEN <<"json_extract(", item.expr[1].parts[1], ".properties, '$.",
                   item.expr[1].parts[2], "') as ", item.expr[1].parts[2]>>
            ELSE DisplayExpr(item.expr[1])
      [] item.kind = "ExprWithAlias" ->
            IF IsDottedPair(item.expr[1])
            THEN <<"json_extract(", item.expr[1].parts[1], ".properties, '$.",
                   item.expr[1].parts[2], "') AS ", item.alias[1]>>
            ELSE DisplayExpr(item.expr[1]) \o <<" AS ", item.alias[1]>>

(* C21: in the translation of a MATCH, every projection item is emitted as *)
(* json_extract(<a>.properties, '$.<b>') with its alias exactly when its   *)
(* expression is <ident>.<ident>; a wildcard is emitted as `*` and every   *)
(* other expression, a decimal literal included, is emitted verbatim.      *)
C21_RewrittenIffDottedPair ==
    LibraryMatch /\ IsSome(parsed.val.return) =>
        /\ Len(SelectList(sql.val)) = Len(ReturnedItems)
        /\ \A i \in 1..Len(ReturnedItems) :
               SelectList(sql.val)[i] = ItemAsClaimed(ReturnedItems[i])

(* RETURN 1.5 has been translated and the literal was taken for a property *)
(* access: json_extract(1.properties, '$.5') as 5.                         *)
C21_DecimalLiteralRewritten ==
    /\ LibraryMatch
    /\ IsSome(parsed.val.return)
    /\ ReturnedItems = <<UnnamedExpr(NumberValue(<<"1", ".", "5">>))>>
    /\ SelectList(sql.val)
         = <<<<"json_extract(", "1", ".properties, '$.", "5", "') as ", "5">>>>

(* The table aliases of the emitted clauses, in the order they were        *)
(* introduced: nodes in FROM and `JOIN nodes`, relationships in            *)
(* `JOIN relationships`.                                                   *)
NodeJoins(r) == SelectSeq(r.join_clauses, LAMBDA c : c[1] = "JOIN nodes ")

NodeAliases(r) ==
    [i \in 1..Len(r.from_clauses) |-> r.from_clauses[i][2]]
      \o [i \in 1..Len(NodeJoins(r)) |-> NodeJoins(r)[i][2]]

RelationshipJoins(r) == SelectSeq(r.join_clauses, LAMBDA c : c[1] = "JOIN relationships ")

RelationshipAliases(r) ==
    [i \in 1..Len(RelationshipJoins(r)) |-> RelationshipJoins(r)[i][2]]

NodesOf(stmt) == SelectSeq(ElementsOf(stmt), LAMBDA e : e.kind = "Node")

RelationshipsOf(stmt) == SelectSeq(ElementsOf(stmt), LAMBDA e : e.kind = "Relationship")

AliasOf(e, prefix, k) == IF IsSome(e.variable) THEN e.variable[1] ELSE GeneratedAlias(prefix, k)

(* C22: the k-th node of the statement, counted over all its patterns and  *)
(* over named and unnamed nodes alike, is aliased by its variable or by    *)
(* n<k>, and the j-th relationship by its variable or by r<j>: the two     *)
(* counters run on from one pattern to the next.                           *)
C22_CountersRunAcrossPatterns ==
    LibraryMatch =>
        /\ NodeAliases(sql)
             = [k \in 1..Len(NodesOf(parsed.val)) |-> AliasOf(NodesOf(parsed.val)[k], "n", k)]
        /\ RelationshipAliases(sql)
             = [j \in 1..Len(RelationshipsOf(parsed.val)) |->
                  AliasOf(RelationshipsOf(parsed.val)[j], "r", j)]

(* Two patterns, the first of two nodes and an unnamed relationship: the   *)
(* unnamed first node of the second pattern is n3 and its relationship r2. *)
C22_Witness ==
    /\ LibraryMatch
    /\ Len(parsed.val.patterns) = 2
    /\ Len(parsed.val.patterns[1].elements) = 3
    /\ parsed.val.patterns[1].elements[2].variable = None
    /\ parsed.val.patterns[2].elements[1].variable = None
    /\ parsed.val.patterns[2].elements[2].variable = None
    /\ NodeAliases(sql)[3] = "n3"
    /\ RelationshipAliases(sql) = <<"r1", "r2">>

(* The places of the relationships in the elements of all patterns, and    *)
(* the alias of the node that stands right before the j-th of them: in a   *)
(* parsed pattern that node belongs to the same pattern.                   *)
RelationshipPlaces(stmt) ==
    SelectSeq([t \in 1..Len(ElementsOf(stmt)) |-> t],
              LAMBDA t : ElementsOf(stmt)[t].kind = "Relationship")

PrecedingNodeAlias(stmt, j) ==
    LET t == RelationshipPlaces(stmt)[j]
        k == Len(SelectSeq(SubSeq(ElementsOf(stmt), 1, t - 1), LAMBDA e : e.kind = "Node")) IN
    AliasOf(ElementsOf(stmt)[t - 1], "n", k)

(* C23: every relationship, whatever its direction, gives exactly one join *)
(* `JOIN relationships <r> ON <A>.id = <r>.from_id` with A the alias of    *)
(* the node right before it in its own pattern; every other join is a      *)
(* `JOIN nodes <n> ON TRUE`, so no node is joined on to_id.                *)
C23_OneFromIdJoinPerRelationship ==
    LibraryMatch =>
        /\ Len(RelationshipJoins(sql)) = Len(RelationshipsOf(parsed.val))
        /\ \A j \in 1..Len(RelationshipJoins(sql)) :
               RelationshipJoins(sql)[j]
                 = <<"JOIN relationships ", AliasOf(RelationshipsOf(parsed.val)[j], "r", j),
                     " ON ", PrecedingNodeAlias(parsed.val, j), ".id = ",
                     AliasOf(RelationshipsOf(parsed.val)[j], "r", j), ".from_id">>
        /\ \A i \in 1..Len(NodeJoins(sql)) :
               NodeJoins(sql)[i] = <<"JOIN nodes ", NodeJoins(sql)[i][2], " ON TRUE">>
        /\ Len(sql.join_clauses) = Len(RelationshipJoins(sql)) + Len(NodeJoins(sql))

(* A left-pointing relationship in a second pattern has been joined on     *)
(* from_id to the first node of that second pattern.                       *)
C23_Witness ==
    /\ LibraryMatch
    /\ Len(parsed.val.patterns) = 2
    /\ Len(parsed.val.patterns[1].elements) = 3
    /\ parsed.val.patterns[1].elements[2].direction = "Both"
    /\ parsed.val.patterns[2].elements[2].direction = "Left"
    /\ RelationshipJoins(sql)[2]
         = <<"JOIN relationships ", "r2", " ON ", "n3", ".id = ", "r2", ".from_id">>

(* The statement with every node cut down to its first label.              *)
FirstLabelOnly(e) ==
    IF e.kind = "Node" /\ Len(e.labels) > 1 THEN [e EXCEPT !.labels = <<e.labels[1]>>] ELSE e

FirstLabelsOnly(stmt) ==
    [stmt EXCEPT !.patterns =
        [i \in 1..Len(stmt.patterns) |->
           Pattern([j \in 1..Len(stmt.patterns[i].elements) |->
                      FirstLabelOnly(stmt.patterns[i].elements[j])])]]

LabelPredicates(r) == SelectSeq(r.where_conditions, LAMBDA c : c[2] = ".label = '")

(* The numbers k of the nodes that carry a label, in traversal order.      *)
LabelledNodes(stmt) ==
    SelectSeq([k \in 1..Len(NodesOf(stmt)) |-> k], LAMBDA k : NodesOf(stmt)[k].labels # <<>>)

HasSeveralLabels(stmt) == \E k \in 1..Len(NodesOf(stmt)) : Len(NodesOf(stmt)[k].labels) > 1

(* C24: a node with labels gives one label predicate, on its first label,  *)
(* a node without labels gives none, and the emitted text is the text      *)
(* emitted for the statement whose nodes keep only their first label.      *)
C24_OnlyFirstLabelConsulted ==
    LibraryMatch =>
        /\ LabelPredicates(sql)
             = [i \in 1..Len(LabelledNodes(parsed.val)) |->
                  <<AliasOf(NodesOf(parsed.val)[LabelledNodes(parsed.val)[i]], "n",
                            LabelledNodes(parsed.val)[i]),
                    ".label = '",
                    NodesOf(parsed.val)[LabelledNodes(parsed.val)[i]].labels[1], "'">>]
        /\ sql.val = transform_cypher_to_sql_basic(FirstLabelsOnly(parsed.val)).val

(* MATCH (:Person:Admin) has been translated with the single predicate     *)
(* n1.label = 'Person'.                                                    *)
C24_Witness ==
    /\ LibraryMatch
    /\ Len(parsed.val.patterns) = 1
    /\ Len(parsed.val.patterns[1].elements) = 1
    /\ parsed.val.patterns[1].elements[1].labels = <<"Person", "Admin">>
    /\ parsed.val.where = None
    /\ sql.where_conditions = <<<<"n1", ".label = '", "Person", "'">>>>
    /\ sql.val = <<"SELECT ", "*", " FROM ", "nodes ", "n1", " WHERE ",
                   "n1", ".label = '", "Person", "'">>

(* The statement with every relationship cut down to its first type.       *)
FirstTypeOnly(e) ==
    IF e.kind = "Relationship" /\ Len(e.types) > 1
    THEN [e EXCEPT !.types = <<e.types[1]>>] ELSE e

FirstTypesOnly(stmt) ==
    [stmt EXCEPT !.patterns =
        [i \in 1..Len(stmt.patterns) |->
           Pattern([j \in 1..Len(stmt.patterns[i].elements) |->
                      FirstTypeOnly(stmt.patterns[i].elements[j])])]]

TypePredicates(r) == SelectSeq(r.where_conditions, LAMBDA c : c[2] = ".type = '")

(* The numbers j of the relationships that declare a type.                 *)
TypedRelationships(stmt) ==
    SelectSeq([j \in 1..Len(RelationshipsOf(stmt)) |-> j],
              LAMBDA j : RelationshipsOf(stmt)[j].types # <<>>)

(* C25: a relationship with types [:A|B|...] gives the one predicate       *)
(* <relAlias>.type = 'A', an untyped relationship gives none, and the      *)
(* emitted text is the text emitted when B, ... are not declared at all.   *)
C25_OnlyFirstTypeCompared ==
    LibraryMatch =>
        /\ TypePredicates(sql)
             = [i \in 1..Len(TypedRelationships(parsed.val)) |->
                  <<AliasOf(RelationshipsOf(parsed.val)[TypedRelationships(parsed.val)[i]],
                            "r", TypedRelationships(parsed.val)[i]),
                    ".type = '",
                    RelationshipsOf(parsed.val)[TypedRelationships(parsed.val)[i]].types[1],
                    "'">>]
        /\ sql.val = transform_cypher_to_sql_basic(FirstTypesOnly(parsed.val)).val

(* MATCH (a)-[r:KNOWS|LIKES|OWNS]-(b) has been translated with the single  *)
(* type predicate r.type = 'KNOWS'; OWNS is nowhere in the text.           *)
C25_Witness ==
    /\ LibraryMatch
    /\ Len(parsed.val.patterns) = 1
    /\ Len(parsed.val.patterns[1].elements) = 3
    /\ parsed.val.patterns[1].elements[2].types = <<"KNOWS", "LIKES", "OWNS">>
    /\ TypePredicates(sql) = <<<<"r", ".type = '", "KNOWS", "'">>>>
    /\ ~Contains(sql.val, "OWNS")
    /\ ~Contains(sql.val, "LIKES")

(* The end of the emitted text, from the first of ORDER BY, LIMIT and      *)
(* OFFSET on.                                                              *)
ClauseTail(txt) ==
    LET starts == {j \in 1..Len(txt) : txt[j] \in {" ORDER BY ", " LIMIT ", " OFFSET "}} IN
    IF starts = {} THEN <<>>
    ELSE SubSeq(txt, CHOOSE j \in starts : \A k \in starts : j <= k, Len(txt))

(* The text a projection item `e` is emitted as, without its ` as <b>`,    *)
(* followed by the direction: the rewrite of a projection item, applied to *)
(* an ORDER BY key.                                                        *)
OrderKeyAsClaimed(e) ==
    LET projected == SelectList(transform_cypher_to_sql_basic(
                         Match(FALSE, TrReturnPatterns, None,
                               Some(ReturnClause(FALSE, <<UnnamedExpr(e)>>, <<>>, None, None)))
                       ).val)[1] IN
    IF Contains(projected, "') as ")
    THEN SubSeq(projected, 1, IndexOf(projected, "') as ") - 1) \o <<"') ASC">>
    ELSE projected \o <<" ASC">>

(* C26: DISTINCT is emitted exactly when the RETURN clause has the flag;   *)
(* an ORDER BY key is emitted with the rewrite of a projection item and    *)
(* ASC, whatever its direction; LIMIT is emitted as LIMIT and SKIP as      *)
(* OFFSET.                                                                 *)
C26_OrderAscLimitOffsetDistinct ==
    LibraryMatch /\ IsSome(parsed.val.return) =>
        /\ (sql.val[2] = "DISTINCT ") <=> parsed.val.return[1].distinct
        /\ Contains(sql.val, "DISTINCT ") <=> parsed.val.return[1].distinct
        /\ ClauseTail(sql.val)
             = (IF parsed.val.return[1].order_by = <<>> THEN <<>>
                ELSE <<" ORDER BY ">>
                       \o Join([i \in 1..Len(parsed.val.return[1].order_by) |->
                                  OrderKeyAsClaimed(parsed.val.return[1].order_by[i].expr)],
                               <<", ">>))
               \o (IF parsed.val.return[1].limit = None THEN <<>>
                   ELSE <<" LIMIT ">> \o DisplayExpr(parsed.val.return[1].limit[1]))
               \o (IF parsed.val.return[1].skip = None THEN <<>>
                   ELSE <<" OFFSET ">> \o DisplayExpr(parsed.val.return[1].skip[1]))

(* RETURN DISTINCT a ORDER BY a.name DESC SKIP 2 LIMIT 5 has been          *)
(* translated: the key is rendered ASC, then LIMIT 5 and OFFSET 2.         *)
C26_Witness ==
    /\ LibraryMatch
    /\ IsSome(parsed.val.return)
    /\ parsed.val.return[1].distinct
    /\ parsed.val.return[1].order_by
         = <<OrderByExpr(CompoundIdentifier(<<"a", "name">>), Some(FALSE))>>
    /\ sql.val[2] = "DISTINCT "
    /\ ClauseTail(sql.val)
         = <<" ORDER BY ", "json_extract(", "a", ".properties, '$.", "name", "') ASC",
             " LIMIT ", "5", " OFFSET ", "2">>

(* C27: for every statement, of each of the four kinds, the translation    *)
(* function of the command-line program returns the text the library's     *)
(* function returns.                                                       *)
C27_BinaryTranslatesAsLibrary ==
    pc = "binary" =>
        /\ stdout = sql.val
        /\ sql = bin_transform_cypher_to_sql_basic(parsed.val)

(* Both functions have translated a MATCH of two patterns with a WHERE     *)
(* expression, and the program printed the library's text.                 *)
C27_Witness ==
    /\ pc = "binary"
    /\ parsed.val.kind = "Match"
    /\ Len(parsed.val.patterns) = 2
    /\ IsSome(parsed.val.where)
    /\ sql.where_conditions # <<>>
    /\ Len(sql.join_clauses) > 2
    /\ stdout = sql.val

(***************************************************************************)
(* The meaning of an emitted WHERE condition.  A row is the set of the     *)
(* comparisons that are true of it.  Under SQL precedence the condition    *)
(* text is an OR of groups, each group an AND of comparisons; none of the  *)
(* emitted texts has parentheses or NOT.                                   *)
(***************************************************************************)
SpacedOperators(txt) ==
    Flatten([i \in 1..Len(txt) |->
               IF txt[i] = " AND " THEN <<" ", "AND", " ">> ELSE <<txt[i]>>])

OrGroups(txt) == Split(SpacedOperators(txt), "OR")

AndTerms(group) ==
    [i \in 1..Len(Split(group, "AND")) |-> Trim(Split(group, "AND")[i])]

TextHolds(txt, row) ==
    \E g \in 1..Len(OrGroups(txt)) :
        \A t \in 1..Len(AndTerms(OrGroups(txt)[g])) : AndTerms(OrGroups(txt)[g])[t] \in row

RECURSIVE ExprHolds(_, _)
ExprHolds(e, row) ==
    IF e.kind = "BinaryOp" /\ e.parts[1] = "AND"
    THEN ExprHolds(e.args[1], row) /\ ExprHolds(e.args[2], row)
    ELSE IF e.kind = "BinaryOp" /\ e.parts[1] = "OR"
         THEN ExprHolds(e.args[1], row) \/ ExprHolds(e.args[2], row)
    ELSE DisplayExpr(e) \in row

(* The predicates the translation generated itself, and every comparison   *)
(* of the emitted condition.                                               *)
GeneratedPredicates(r) ==
    {r.where_conditions[i] : i \in {j \in 1..Len(r.where_conditions) :
                                      r.where_conditions[j][2] \in {".label = '", ".type = '"}}}

Comparisons(txt) ==
    UNION {{AndTerms(OrGroups(txt)[g])[t] : t \in 1..Len(AndTerms(OrGroups(txt)[g]))} :
             g \in 1..Len(OrGroups(txt))}

(* C28: whatever the user's WHERE expression, a top-level OR included, a   *)
(* row satisfies the emitted condition only if it satisfies every          *)
(* generated label and type predicate and the user's expression.           *)
C28_WhereIsConjunction ==
    LibraryMatch /\ IsSome(parsed.val.where) /\ Contains(sql.val, " WHERE ") =>
        \A row \in SUBSET Comparisons(WhereText(sql.val)) :
            TextHolds(WhereText(sql.val), row) =>
                /\ GeneratedPredicates(sql) \subseteq row
                /\ ExprHolds(parsed.val.where[1], row)

(* MATCH (a:Person) WHERE a.age > 30 OR a.vip = 1 has been translated to   *)
(* ... WHERE a.label = 'Person' AND a.age > 30 OR a.vip = 1, which a row   *)
(* with a.vip = 1 and another label satisfies.                             *)
C28_OrEscapesLabelPredicate ==
    /\ LibraryMatch
    /\ Len(parsed.val.patterns) = 1
    /\ Len(parsed.val.patterns[1].elements) = 1
    /\ parsed.val.where = Some(BinaryOp(TrComparisons.age, "OR", TrComparisons.vip))
    /\ sql.where_conditions[1] = <<"a", ".label = '", "Person", "'">>
    /\ WhereText(sql.val)
         = <<"a", ".label = '", "Person", "'", " AND ",
             "a", ".", "age", " ", ">", " ", "3", "0", " ", "OR", " ",
             "a", ".", "vip", " ", "=", " ", "1">>
    /\ TextHolds(WhereText(sql.val), {DisplayExpr(TrComparisons.vip)})
    /\ <<"a", ".label = '", "Person", "'">> \notin {DisplayExpr(TrComparisons.vip)}

(* The variables written in the patterns, and the aliases of FROM and JOIN.*)
WrittenVariables(stmt) ==
    [i \in 1..Len(SelectSeq(ElementsOf(stmt), LAMBDA e : IsSome(e.variable))) |->
       SelectSeq(ElementsOf(stmt), LAMBDA e : IsSome(e.variable))[i].variable[1]]

PairwiseDistinct(s) == \A i, j \in 1..Len(s) : i # j => s[i] # s[j]

TableAliases(r) == NodeAliases(r) \o RelationshipAliases(r)

(* C29: when the variables written in the patterns are pairwise distinct,  *)
(* the aliases of the FROM and JOIN clauses are pairwise distinct.         *)
C29_AliasesDistinct ==
    LibraryMatch /\ PairwiseDistinct(WrittenVariables(parsed.val)) =>
        PairwiseDistinct(TableAliases(sql))

(* MATCH (n2)-[...]-() has been translated: the anonymous second node got  *)
(* the generated alias n2, the name the user gave the first node.          *)
C29_GeneratedAliasMeetsVariable ==
    /\ LibraryMatch
    /\ Len(parsed.val.patterns) = 1
    /\ WrittenVariables(parsed.val) = <<"n2">>
    /\ NodeAliases(sql) = <<"n2", "n2">>
    /\ sql.from_clauses = <<<<"nodes ", "n2">>>>
    /\ sql.join_clauses[2] = <<"JOIN nodes ", "n2", " ON TRUE">>

(* The result parse_cypher_statement returns for the token vector.         *)
StatementResult == parse_cypher_statement(tokens, 1)

StepEnded == pc \in {"done", "error"}

(* The steps that are one iteration of the pattern loop, the label loop,   *)
(* the `:` and `|` type loops, the ON loop and the map-literal loop.       *)
StepLoopIteration ==
    \/ StepRelationship
    \/ StepLabel
    \/ StepType
    \/ StepPipe
    \/ StepOnBlock
    \/ StepMapEntry

(* No function of the parser is entered while it is already running.       *)
NoRecursion == \A i, j \in 1..Len(value) : value[i] = value[j] => i = j

(* C30: on every token stream parse_cypher_statement ends, with the        *)
(* statement or the error the function returns; the parser's index never   *)
(* decreases; every loop iteration that does not end in an error leaves    *)
(* the index strictly greater; and no parser function is on the call stack *)
(* twice, however many relationships a pattern chains.                     *)
C30_ParserTerminates ==
    /\ <>StepEnded
    /\ [](StepEnded =>
            /\ parsed.ok = StatementResult.ok
            /\ parsed.pos = StatementResult.pos
            /\ parsed.err = StatementResult.err)
    /\ [][parsed'.pos >= parsed.pos]_vars
    /\ [][StepLoopIteration /\ pc' # "error" => parsed'.pos > parsed.pos]_vars
    /\ []NoRecursion

(* A statement parsed to its last token whose patterns chain              *)
(* relationships, list types with `|` and carry property maps.             *)
C30_Witness ==
    /\ pc = "done"
    /\ parsed.pos = Len(tokens) + 1
    /\ Len(SelectSeq(tokens, LAMBDA t : t.t = "LBracket")) >= 2
    /\ Len(SelectSeq(tokens, LAMBDA t : t.t = "Pipe")) >= 1
    /\ Len(SelectSeq(tokens, LAMBDA t : t.t = "LBrace")) >= 2

=========================================================================
